---- MODULE Spec2Model ----
(***************************************************************************)
(* State-machine model of the TUI monitor session of src/index.js          *)
(* (tuiMonitor): the serial port handles it creates, its reconnect logic,  *)
(* its timers, its keyboard commands, the inbound data pipeline and the    *)
(* events it logs to the data and hex areas.                               *)
(*                                                                         *)
(* Node runs one callback at a time, so every action below is one callback *)
(* of the event loop run to completion (up to its next await).             *)
(***************************************************************************)
EXTENDS Integers, Sequences, FiniteSets, TLC

\* ---------------------------------------------------------------- bounds
MaxHandles == 2          \* SerialPort objects alive at the same time
MaxAttempts == 2         \* cap of reconnectAttempts under Spec
MaxTimers == 1           \* cap of pending untracked setTimeout callbacks
MaxBackoffAttempts == 8  \* cap of reconnectAttempts under SpecAuto
MaxChunkLen == 1         \* bytes in one inbound chunk
MaxBuffered == 1         \* bytes the line parser may hold back
MaxBytes == 3            \* cap of bytesReceived under SpecData
MaxFilterLen == 1        \* characters of a filter text
MaxSendLen == 1          \* characters of a text typed into the send dialog
MaxSent == 6             \* cap of bytesSent under SpecSend
MaxTicks == 6            \* clock ticks followed after reconnectStartTime is set

\* ------------------------------------------------------ program constants
maxReconnectDelay == 30000
BaseDelayMs == 1000
CapExponent == 5

VARIABLES
  port,       \* the SerialPort object the variable port names
  orphans,    \* the live SerialPort objects no variable names any more
  parser,     \* the variable parser: "null", the parser of port, or a stale one
  autoReconnect, isReconnecting, reconnectAttempts,
  reconnectTimer, reconnectStartTime, currentReconnectDelay,
  elapsed,          \* Date.now() - reconnectStartTime (line 361), 0 while that is null
  guardedTimers,   \* pending timers of lines 614-618 and 669-673
  kickTimers,      \* pending timers of lines 832, 837, 840
  orphanTimers,    \* pending timers of line 545 that reconnectTimer no longer names
  permFailed,      \* the last permanent open error force-disabled auto-reconnect
  isShuttingDown, exited, uiReady, updateTimer, dialog,
  screenHandlers,  \* times the handlers of keyHandlers are bound to the screen
  screenWidth, screenHeight, compactMode,  \* the layout of lines 38-40 and 77-80
  pauseLogging, showHex, showStats, echoMode, lineEnding, filterText, filterEnabled,
  bytesReceived, bytesSent, messagesReceived, startTime,
  failedOpens, \* awaited reconnect opens that failed since reconnectAttempts was last set to 0
  lastChunk,  \* the chunk the last callback was given (<<>> if none)
  lastInput,  \* the text the send dialog submitted to the last callback
  lastWrite,  \* what the last callback passed to port.write (<<>> if nothing)
  lastLines,  \* lines the parser emitted in the last callback
  lastError,  \* message of the error the last callback was given (<<>> if none)
  emitted,    \* what the last callback logged to the data and hex areas
  step        \* the last callback the event loop ran

connVars == <<port, orphans, parser>>
reconVars == <<autoReconnect, isReconnecting, reconnectAttempts, reconnectTimer,
               reconnectStartTime, currentReconnectDelay, orphanTimers, permFailed,
               failedOpens, elapsed>>
timerVars == <<guardedTimers, kickTimers>>
\* orphanTimers is set with the reconnect variables (SetReconState)
layoutVars == <<screenWidth, screenHeight, compactMode>>
procVars == <<isShuttingDown, exited, uiReady, updateTimer, dialog, screenHandlers,
              layoutVars>>
setVars == <<pauseLogging, showHex, showStats, echoMode, lineEnding>>
filterVars == <<filterText, filterEnabled>>
statVars == <<bytesReceived, bytesSent, messagesReceived, startTime>>
vars == <<connVars, reconVars, timerVars, procVars, setVars, filterVars, statVars,
          lastChunk, lastInput, lastWrite, lastLines, lastError, emitted, step>>

\* ----------------------------------------------------------------- text
\* A text is the sequence of the UTF-16 code units of a JavaScript string (its
\* length is Len, substring is SubSeq); a unit outside ASCII is written as its
\* code ("U+2190"), a character outside the basic plane as its two surrogates.
LowerChar(c) ==
  CASE c = "A" -> "a" [] c = "B" -> "b" [] c = "C" -> "c" [] c = "D" -> "d"
    [] c = "E" -> "e" [] c = "F" -> "f" [] c = "G" -> "g" [] c = "H" -> "h"
    [] c = "I" -> "i" [] c = "J" -> "j" [] c = "K" -> "k" [] c = "L" -> "l"
    [] c = "M" -> "m" [] c = "N" -> "n" [] c = "O" -> "o" [] c = "P" -> "p"
    [] c = "Q" -> "q" [] c = "R" -> "r" [] c = "S" -> "s" [] c = "T" -> "t"
    [] c = "U" -> "u" [] c = "V" -> "v" [] c = "W" -> "w" [] c = "X" -> "x"
    [] c = "Y" -> "y" [] c = "Z" -> "z" [] OTHER -> c

ToLowerCase(s) == [i \in 1..Len(s) |-> LowerChar(s[i])]

\* s.includes(t): t occurs in s at some offset (the first unit is compared
\* before the rest).
Includes(s, t) ==
  \/ t = <<>>
  \/ \E i \in 0..(Len(s) - Len(t)) :
       s[i + 1] = t[1] /\ SubSeq(s, i + 1, i + Len(t)) = t

IsSpace(c) == c \in {" ", "\t", "\r", "\n"}

Trim(s) ==
  LET keep == {i \in 1..Len(s) : ~IsSpace(s[i])}
  IN IF keep = {} THEN <<>>
     ELSE SubSeq(s, CHOOSE i \in keep : \A j \in keep : i <= j,
                    CHOOSE i \in keep : \A j \in keep : i >= j)

\* Bytes of one character in UTF-8 (what Buffer.from(string) holds).
Utf8Length(c) ==
  CASE c = "U+00E9" -> 2 [] c = "U+2190" -> 3 [] c = "U+2192" -> 3 [] OTHER -> 1

\* Buffer.from(s).length
RECURSIVE ByteLength(_)
ByteLength(s) == IF s = <<>> THEN 0 ELSE Utf8Length(Head(s)) + ByteLength(Tail(s))

RECURSIVE DecimalString(_)
DecimalString(n) ==
  LET d == <<"0", "1", "2", "3", "4", "5", "6", "7", "8", "9">>
  IN IF n < 10 THEN <<d[n + 1]>> ELSE DecimalString(n \div 10) \o <<d[(n % 10) + 1]>>

\* ------------------------------------------------------- ReadlineParser
Delimiter == "\n"

IndexOfDelimiter(data) ==
  IF \E i \in 1..Len(data) : data[i] = Delimiter
  THEN CHOOSE i \in 1..Len(data) :
         data[i] = Delimiter /\ \A j \in 1..(i - 1) : data[j] # Delimiter
  ELSE 0

RECURSIVE ParserLines(_)
ParserLines(data) ==
  LET p == IndexOfDelimiter(data)
  IN IF p = 0 THEN <<>>
     ELSE <<SubSeq(data, 1, p - 1)>> \o ParserLines(SubSeq(data, p + 1, Len(data)))

RECURSIVE ParserRest(_)
ParserRest(data) ==
  LET p == IndexOfDelimiter(data)
  IN IF p = 0 THEN data ELSE ParserRest(SubSeq(data, p + 1, Len(data)))

\* ------------------------------------------------------------ the sink
\* Variant of isSystemMessage that leaves yellow out of the colours always shown.
IsSystemMessageNoYellow(color) == color \in {"cyan", "red"}

\* Variant of isSystemMessage that leaves red out of the colours always shown.
IsSystemMessageNoRed(color) == color \in {"yellow", "cyan"}

IsSystemMessage(color) == color \in {"yellow", "cyan", "red"}

Event(kind, color, text) == [kind |-> kind, color |-> color, text |-> text]

MaxOf(a, b) == IF a >= b THEN a ELSE b
MinOf(a, b) == IF a <= b THEN a ELSE b

\* compactMode as calculateLayout computes it (line 80).
CompactMode(width, height) == width < 100 \/ height < 20

\* maxLength (line 301)
MaxLength(width, compact) == MaxOf(20, width - (IF compact THEN 15 ELSE 25))

\* truncatedMsg (line 302)
TruncatedMsg(messageStr, width, compact) ==
  IF Len(messageStr) > MaxLength(width, compact)
  THEN SubSeq(messageStr, 1, MaxLength(width, compact) - 3) \o <<".", ".", ".">>
  ELSE messageStr

\* The text inside the colour tags of finalMsg (lines 303-304).
FinalMsg(messageStr, width, compact) ==
  IF compact THEN TruncatedMsg(messageStr, width, compact) ELSE messageStr

\* addMessage, with the flags and the layout it reads passed in (a handler may
\* have changed them before it logs).
AddMessage(message, color, shut, hasArea, paused, fEnabled, fText, width, compact) ==
  IF shut \/ ~hasArea THEN <<>>
  ELSE IF paused /\ ~IsSystemMessage(color) THEN <<>>
  ELSE IF ~IsSystemMessage(color) /\ fEnabled /\ fText # <<>>
          /\ ~Includes(ToLowerCase(message), ToLowerCase(fText)) THEN <<>>
  ELSE <<Event("message", color, FinalMsg(message, width, compact))>>

\* What components.dataArea.log is given for a message that is shown (line 306),
\* without its time stamp.
Logged(color, message) ==
  Event("message", color, FinalMsg(message, screenWidth, compactMode))

Msg(message, color) ==
  AddMessage(message, color, isShuttingDown, uiReady, pauseLogging,
             filterEnabled, filterText, screenWidth, compactMode)

HexDigit(n) ==
  <<"0", "1", "2", "3", "4", "5", "6", "7", "8", "9", "A", "B", "C", "D", "E", "F">>[n + 1]

\* byte.toString(16).padStart(2, '0').toUpperCase() of the bytes the model uses
ByteValue(c) ==
  CASE c = "\n" -> 10 [] c = "\r" -> 13 [] c = " " -> 32
    [] c = "T" -> 84 [] c = "s" -> 115 [] c = "t" -> 116 [] OTHER -> 63

HexByte(c) == <<HexDigit(ByteValue(c) \div 16), HexDigit(ByteValue(c) % 16)>>

RECURSIVE HexString(_)
HexString(data) ==
  IF data = <<>> THEN <<>>
  ELSE IF Len(data) = 1 THEN HexByte(data[1])
  ELSE HexByte(data[1]) \o <<" ">> \o HexString(Tail(data))

\* The size of the terminal when the session starts (lines 38-39, 78-79).
ScreenWidth == 80
ScreenHeight == 24

\* The clock is read at multiples of half a second.
TickMs == 500

\* Variant of lines 333-335 that never shortens the text.
DisplayHexUntruncated(data) == HexString(data)

DisplayHex(data) ==
  LET hex == HexString(data)
      maxHexLength == MaxOf(10, (screenWidth * 3) \div 30)
  IN IF Len(hex) > maxHexLength * 3
     THEN SubSeq(hex, 1, maxHexLength * 3 - 3) \o <<".", ".", ".">>
     ELSE hex

\* addHexData: the hex area exists exactly when showHex held at the last layout.
AddHexData(data) ==
  IF isShuttingDown \/ ~showHex \/ pauseLogging \/ ~uiReady THEN <<>>
  ELSE <<Event("hex", "hex", DisplayHex(data))>>

\* ------------------------------------------------------ message texts
\* The port path and the baud rate the command was started with.
PortPath ==
  <<"/", "d", "e", "v", "/", "t", "t", "y", "U", "S", "B", "0">>
Baud == <<"9", "6", "0", "0">>

EnabledWord(on) ==
  IF on THEN <<"e", "n", "a", "b", "l", "e", "d">>
  ELSE <<"d", "i", "s", "a", "b", "l", "e", "d">>

TextKeysLoaded ==
  <<"U+D83C", "U+DFAE", " ", "K", "e", "y", "b", "o", "a", "r", "d", " ", "s", "h",
    "o", "r", "t", "c", "u", "t", "s", " ", "l", "o", "a", "d", "e", "d", ".", " ",
    "P", "r", "e", "s", "s", " ", "?", " ", "f", "o", "r", " ", "h", "e", "l", "p">>
TextConnected ==
  <<"U+2705", " ", "C", "o", "n", "n", "e", "c", "t", "e", "d", " ", "t", "o", " ">>
  \o PortPath \o <<" ", "a", "t", " ">> \o Baud \o <<" ", "b", "a", "u", "d">>
TextReconnected(n) ==
  <<"U+2705", " ", "R", "e", "c", "o", "n", "n", "e", "c", "t", "e", "d", " ", "s",
    "u", "c", "c", "e", "s", "s", "f", "u", "l", "l", "y", " ", "a", "f", "t", "e",
    "r", " ">>
  \o DecimalString(n) \o <<" ", "a", "t", "t", "e", "m", "p", "t">>
  \o (IF n > 1 THEN <<"s">> ELSE <<>>) \o <<"!">>
TextAutoEnabled ==
  <<"U+D83D", "U+DD04", " ", "A", "u", "t", "o", "-", "r", "e", "c", "o", "n", "n",
    "e", "c", "t", " ", "e", "n", "a", "b", "l", "e", "d">>
TextInbound(cleanData) == <<"U+2190", " ">> \o cleanData
\* currentReconnectDelay/1000 is a whole number for every delay of BackoffDelay.
TextReconnectIn(n, delay) ==
  <<"U+D83D", "U+DD04", " ", "R", "e", "c", "o", "n", "n", "e", "c", "t", " ", "a",
    "t", "t", "e", "m", "p", "t", " ", "#">>
  \o DecimalString(n) \o <<" ", "s", "t", "a", "r", "t", "i", "n", "g", " ", "i", "n", " ">>
  \o DecimalString(delay \div 1000) \o <<"s", ".", ".", ".">>
TextAttemptingOpen ==
  <<"U+D83D", "U+DD0C", " ", "A", "t", "t", "e", "m", "p", "t", "i", "n", "g", " ",
    "t", "o", " ", "o", "p", "e", "n", " ">>
  \o PortPath \o <<".", ".", ".">>
TextReconnectFailed(n, message) ==
  <<"U+274C", " ", "R", "e", "c", "o", "n", "n", "e", "c", "t", " ", "#">>
  \o DecimalString(n) \o <<" ", "f", "a", "i", "l", "e", "d", ":", " ">> \o message
TextPermanent ==
  <<"U+26A0", "U+FE0F", " ", "P", "e", "r", "m", "a", "n", "e", "n", "t", " ", "e",
    "r", "r", "o", "r", " ", "-", " ", "d", "i", "s", "a", "b", "l", "i", "n", "g",
    " ", "a", "u", "t", "o", "-", "r", "e", "c", "o", "n", "n", "e", "c", "t">>
TextPortError(message) ==
  <<"U+274C", " ", "P", "o", "r", "t", " ", "e", "r", "r", "o", "r", ":", " ">>
  \o message
TextDisconnected ==
  <<"U+D83D", "U+DCF4", " ", "P", "o", "r", "t", " ", "d", "i", "s", "c", "o", "n",
    "n", "e", "c", "t", "e", "d">>
TextResetting ==
  <<"U+D83D", "U+DD04", " ", "R", "e", "s", "e", "t", "t", "i", "n", "g", " ", "r",
    "e", "c", "o", "n", "n", "e", "c", "t", "i", "o", "n", " ", "a", "t", "t", "e",
    "m", "p", "t", "s", ".", ".", ".">>
TextStarting ==
  <<"U+D83D", "U+DE80", " ", "S", "t", "a", "r", "t", "i", "n", "g", " ", "r", "e",
    "c", "o", "n", "n", "e", "c", "t", "i", "o", "n", ".", ".", ".">>
TextAutoDisabled ==
  <<"U+23F8", "U+FE0F", " ", "A", "u", "t", "o", "-", "r", "e", "c", "o", "n", "n",
    "e", "c", "t", " ", "d", "i", "s", "a", "b", "l", "e", "d">>
TextHexView(on) ==
  <<"U+D83D", "U+DD0D", " ", "H", "e", "x", " ", "v", "i", "e", "w", " ">> \o EnabledWord(on)
TextStatistics(on) ==
  <<"U+D83D", "U+DCCA", " ", "S", "t", "a", "t", "i", "s", "t", "i", "c", "s", " ">> \o EnabledWord(on)
TextLogging(paused) ==
  <<"U+D83D", "U+DCDD", " ", "L", "o", "g", "g", "i", "n", "g", " ">>
  \o (IF paused THEN <<"p", "a", "u", "s", "e", "d">>
      ELSE <<"r", "e", "s", "u", "m", "e", "d">>)
TextFilter(on, text) ==
  <<"U+D83C", "U+DFAF", " ", "F", "i", "l", "t", "e", "r", " ">> \o EnabledWord(on)
  \o <<":", " ", "\"">> \o text \o <<"\"">>
TextNotConnected ==
  <<"U+26A0", "U+FE0F", " ", "P", "o", "r", "t", " ", "n", "o", "t", " ", "c", "o",
    "n", "n", "e", "c", "t", "e", "d", ".", " ", "C", "a", "n", "n", "o", "t", " ",
    "s", "e", "n", "d", " ", "d", "a", "t", "a", ".">>
TextEchoMode(on) ==
  <<"U+D83D", "U+DD0A", " ", "E", "c", "h", "o", " ", "m", "o", "d", "e", " ">> \o EnabledWord(on)
TextLogsCleared ==
  <<"U+D83E", "U+DDF9", " ", "L", "o", "g", "s", " ", "c", "l", "e", "a", "r", "e",
    "d">>
ModeName(mode) ==
  CASE mode = "LF" -> <<"L", "F">> [] mode = "CR" -> <<"C", "R">>
    [] OTHER -> <<"C", "R", "L", "F">>
TextLineEnding(mode) ==
  <<"U+D83D", "U+DCCF", " ", "L", "i", "n", "e", " ", "e", "n", "d", "i", "n", "g",
    " ", "c", "h", "a", "n", "g", "e", "d", " ", "t", "o", " ">>
  \o ModeName(mode)
TextSent(value) == <<"U+2192", " ">> \o value
TextSendFailed(message) ==
  <<"U+274C", " ", "S", "e", "n", "d", " ", "f", "a", "i", "l", "e", "d", ":", " ">>
  \o message

\* ------------------------------------------------- SerialPort objects
\* A SerialPort object: st is "opening", "open", "closing" or "closed" (new
\* objects are opened in the callback that creates them); ls tells whether the
\* listeners of setupPortHandlers are attached; w names the async function that
\* awaits its open or close callback ("init": tuiMonitor, "cb": a reconnect
\* timer callback, "none"); buf is what its ReadlineParser holds back.
Handle(st, ls, w) == [st |-> st, ls |-> ls, w |-> w, buf |-> <<>>]

\* port.isOpen
IsOpen(h) == h.st = "open"

IsLive(h) == h.st \in {"opening", "open", "closing"}

\* The objects no variable names are kept in one fixed order: which of two
\* such objects was created first is never read by the program.
HandleRank(h) ==
  (CASE h.st = "opening" -> 0 [] h.st = "open" -> 1 [] h.st = "closing" -> 2
     [] OTHER -> 3) * 6
  + (IF h.ls THEN 3 ELSE 0)
  + (CASE h.w = "none" -> 0 [] h.w = "cb" -> 1 [] OTHER -> 2)

RemoveAt(seq, i) == SubSeq(seq, 1, i - 1) \o SubSeq(seq, i + 1, Len(seq))

InsertHandle(seq, h) ==
  LET k == Cardinality({i \in 1..Len(seq) : HandleRank(seq[i]) <= HandleRank(h)})
  IN SubSeq(seq, 1, k) \o <<h>> \o SubSeq(seq, k + 1, Len(seq))

\* A closed object that no variable names is out of the program's reach.
Retire(seq, h) == IF IsLive(h) THEN InsertHandle(seq, h) ELSE seq

\* The objects events can come from: 0 is port, i > 0 is orphans[i].
Targets == 0..Len(orphans)
HandleAt(t) == IF t = 0 THEN port ELSE orphans[t]
PortWith(t, h) == IF t = 0 THEN h ELSE port
OrphansWith(t, h) == IF t = 0 THEN orphans ELSE Retire(RemoveAt(orphans, t), h)

\* ------------------------------------------------------ reconnect state
\* The reconnect variables as one record, so that a handler can run
\* cancelReconnect and attemptReconnect one after the other.
ReconState ==
  [auto |-> autoReconnect, recon |-> isReconnecting, attempts |-> reconnectAttempts,
   timer |-> reconnectTimer, start |-> reconnectStartTime,
   delay |-> currentReconnectDelay, orphans |-> orphanTimers, failed |-> failedOpens,
   elapsed |-> elapsed, msgs |-> <<>>]

SetReconState(r) ==
  /\ autoReconnect' = r.auto
  /\ isReconnecting' = r.recon
  /\ reconnectAttempts' = r.attempts
  /\ reconnectTimer' = r.timer
  /\ reconnectStartTime' = r.start
  /\ currentReconnectDelay' = r.delay
  /\ orphanTimers' = r.orphans
  /\ failedOpens' = r.failed
  /\ elapsed' = IF r.start = "null" THEN 0 ELSE r.elapsed

RECURSIVE Pow2(_)
Pow2(n) == IF n = 0 THEN 1 ELSE 2 * Pow2(n - 1)

\* Variant of the delay without its outer Math.min(..., maxReconnectDelay).
BackoffDelayUncapped(n) == BaseDelayMs * Pow2(MinOf(n - 1, CapExponent))

\* Math.min(1000 * Math.pow(2, Math.min(reconnectAttempts - 1, 5)), maxReconnectDelay)
BackoffDelay(n) ==
  MinOf(BaseDelayMs * Pow2(MinOf(n - 1, CapExponent)), maxReconnectDelay)

\* Variant of attemptReconnect whose counter stops where the delay stops growing.
AttemptReconnectCapped(r, shut) ==
  IF ~r.auto \/ r.recon \/ shut THEN r
  ELSE [r EXCEPT !.recon = TRUE,
                 !.attempts = MinOf(r.attempts + 1, CapExponent + 1),
                 !.delay = BackoffDelay(r.attempts + 1),
                 !.start = "set",
                 !.elapsed = 0,
                 !.timer = "pending",
                 !.orphans = r.orphans + (IF r.timer = "pending" THEN 1 ELSE 0),
                 !.msgs = r.msgs \o Msg(TextReconnectIn(r.attempts + 1,
                                                        BackoffDelay(r.attempts + 1)),
                                        "cyan")]

\* attemptReconnect() up to its setTimeout; shut is isShuttingDown.
AttemptReconnect(r, shut) ==
  IF ~r.auto \/ r.recon \/ shut THEN r
  ELSE [r EXCEPT !.recon = TRUE,
                 !.attempts = r.attempts + 1,
                 !.delay = BackoffDelay(r.attempts + 1),
                 !.start = "set",
                 !.elapsed = 0,
                 !.timer = "pending",
                 !.orphans = r.orphans + (IF r.timer = "pending" THEN 1 ELSE 0),
                 !.msgs = r.msgs \o Msg(TextReconnectIn(r.attempts + 1,
                                                        BackoffDelay(r.attempts + 1)),
                                        "cyan")]

\* Variant of cancelReconnect without reconnectAttempts = 0.
CancelReconnectKeepsCount(r) ==
  [r EXCEPT !.timer = "null", !.recon = FALSE,
            !.start = "null", !.delay = 0, !.failed = 0]

CancelReconnect(r) ==
  [r EXCEPT !.timer = "null", !.recon = FALSE, !.attempts = 0,
            !.start = "null", !.delay = 0, !.failed = 0]

\* Variant of that callback whose test never passes.
GuardedRetryReturns(r) == r

\* The callback of the timers of lines 614-618 and 669-673.
GuardedRetry(r) ==
  IF r.auto /\ ~IsOpen(port) /\ ~isShuttingDown
  THEN AttemptReconnect(r, isShuttingDown) ELSE r

\* The status updateStatusDisplay shows (lines 359-368).
StatusShown ==
  IF isReconnecting /\ reconnectStartTime # "null" THEN "Reconnecting"
  ELSE IF IsOpen(port) THEN "Connected"
  ELSE "Disconnected"

\* Math.ceil(x / d) for integers x and d > 0
CeilDiv(x, d) == -((-x) \div d)

\* Variant of line 362 without its Math.max(0, ...).
RemainingUnfloored(delay, el) == CeilDiv(delay - el, 1000)

\* remaining (line 362)
Remaining(delay, el) == MaxOf(0, CeilDiv(delay - el, 1000))

\* The countdown of the status line, where it shows one (lines 360-363).
CountdownShown == Remaining(currentReconnectDelay, elapsed)

\* ---------------------------------------------------------------- Init
\* tuiMonitor up to its first await: port created, handlers set, open begun.
Init ==
  /\ port = Handle("opening", TRUE, "init")
  /\ orphans = <<>>
  /\ parser = "port"
  /\ autoReconnect = TRUE
  /\ isReconnecting = FALSE
  /\ reconnectAttempts = 0
  /\ reconnectTimer = "null"
  /\ reconnectStartTime = "null"
  /\ currentReconnectDelay = 0
  /\ elapsed = 0
  /\ guardedTimers = 0
  /\ kickTimers = 0
  /\ orphanTimers = 0
  /\ permFailed = FALSE
  /\ failedOpens = 0
  /\ isShuttingDown = FALSE
  /\ exited = FALSE
  /\ uiReady = FALSE
  /\ updateTimer = FALSE
  /\ dialog = "none"
  /\ screenHandlers = 0
  /\ screenWidth = ScreenWidth
  /\ screenHeight = ScreenHeight
  /\ compactMode = FALSE
  /\ pauseLogging = FALSE
  /\ showHex = TRUE
  /\ showStats = TRUE
  /\ echoMode = FALSE
  /\ lineEnding = "LF"
  /\ filterText = <<>>
  /\ filterEnabled = FALSE
  /\ bytesReceived = 0
  /\ bytesSent = 0
  /\ messagesReceived = 0
  /\ startTime = 0
  /\ lastChunk = <<>>
  /\ lastInput = <<>>
  /\ lastWrite = <<>>
  /\ lastLines = <<>>
  /\ lastError = <<>>
  /\ emitted = <<>>
  /\ step = "start"

\* ------------------------------------------------------------- cleanup
\* Variant of cleanup() without the guard of its first line.
CleanupAlwaysRuns == FALSE

\* cleanup() (lines 892-932): its first line returns when shutdown has begun.
CleanupReturnsEarly == isShuttingDown

\* Lines 905-917: listeners off, port.close() if port.isOpen.
CleanupPort ==
  IF CleanupReturnsEarly THEN port
  ELSE [port EXCEPT !.ls = FALSE, !.st = IF IsOpen(port) THEN "closing" ELSE port.st]

CleanupRecon == IF CleanupReturnsEarly THEN ReconState ELSE CancelReconnect(ReconState)

ExitRecon(r) == [r EXCEPT !.orphans = 0]

\* process.exit: the process is gone, the system releases its handles and none
\* of its callbacks runs any more.
Released == Handle("closed", FALSE, "none")

Cleanup(exit, name, error) ==
  /\ ~exited
  /\ lastError' = error
  /\ isShuttingDown' = TRUE
  /\ SetReconState(IF exit THEN ExitRecon(CleanupRecon) ELSE CleanupRecon)
  /\ port' = IF exit THEN Released ELSE CleanupPort
  /\ orphans' = IF exit THEN <<>> ELSE orphans
  /\ guardedTimers' = IF exit THEN 0 ELSE guardedTimers
  /\ kickTimers' = IF exit THEN 0 ELSE kickTimers
  /\ updateTimer' = IF CleanupReturnsEarly /\ ~exit THEN updateTimer ELSE FALSE
  /\ uiReady' = IF CleanupReturnsEarly /\ ~exit THEN uiReady ELSE FALSE
  /\ dialog' = IF CleanupReturnsEarly /\ ~exit THEN dialog ELSE "none"
  /\ screenHandlers' = IF CleanupReturnsEarly /\ ~exit THEN screenHandlers ELSE 0
  /\ exited' = exit
  /\ emitted' = <<>>
  /\ step' = name
  /\ lastLines' = <<>>
  /\ lastChunk' = <<>>
  /\ lastInput' = <<>>
  /\ lastWrite' = <<>>
  /\ UNCHANGED <<parser, permFailed, layoutVars, setVars, filterVars, statVars>>

\* SIGINT or SIGTERM: cleanup() alone, the process keeps running (lines 935-936).
Signal == Cleanup(FALSE, "signal", <<>>)

\* ------------------------------------------------------- initial open
\* The open callback of lines 954-957 reports success: lines 960-981.
InitialOpenOk ==
  /\ ~exited
  /\ port.st = "opening" /\ port.w = "init"
  /\ port' = [port EXCEPT !.st = "open", !.w = "none"]
  /\ uiReady' = ~isShuttingDown
  /\ updateTimer' = TRUE
  /\ screenHandlers' = 1
  /\ compactMode' = IF isShuttingDown THEN compactMode
                     ELSE CompactMode(screenWidth, screenHeight)
  /\ emitted' = AddMessage(TextKeysLoaded, "cyan", isShuttingDown, ~isShuttingDown,
                           pauseLogging, filterEnabled, filterText, screenWidth,
                           CompactMode(screenWidth, screenHeight))
                \o AddMessage(TextConnected, "green", isShuttingDown, ~isShuttingDown,
                              pauseLogging, filterEnabled, filterText, screenWidth,
                              CompactMode(screenWidth, screenHeight))
  /\ step' = "initialOpenOk"
  /\ lastLines' = <<>>
  /\ lastChunk' = <<>>
  /\ lastInput' = <<>>
  /\ lastWrite' = <<>>
  /\ lastError' = <<>>
  /\ UNCHANGED <<orphans, parser, reconVars, timerVars, isShuttingDown, exited,
                 dialog, screenWidth, screenHeight, setVars, filterVars, statVars>>

\* The initial open reports an error or its 5 s timer fires: cleanup() and
\* process.exit(1) (lines 983-987).
InitialOpenFails(message) ==
  /\ port.st = "opening" /\ port.w = "init"
  /\ Cleanup(TRUE, "initialOpenFails", message)

\* ------------------------------------------------------ transport events
InboundErrors ==
  { <<"E", "r", "r", "o", "r", ":", " ", "P", "e", "r", "m", "i", "s", "s", "i", "o",
      "n", " ", "d", "e", "n", "i", "e", "d", ",", " ", "c", "a", "n", "n", "o", "t",
      " ", "o", "p", "e", "n">>,
    <<"E", "r", "r", "o", "r", ":", " ", "R", "e", "s", "o", "u", "r", "c", "e", " ",
      "b", "u", "s", "y", ",", " ", "c", "a", "n", "n", "o", "t", " ", "o", "p", "e",
      "n">>,
    <<"E", "r", "r", "o", "r", ":", " ", "N", "o", " ", "s", "u", "c", "h", " ", "f",
      "i", "l", "e", " ", "o", "r", " ", "d", "i", "r", "e", "c", "t", "o", "r", "y",
      ",", " ", "c", "a", "n", "n", "o", "t", " ", "o", "p", "e", "n">> }

TimeoutError ==
  <<"C", "o", "n", "n", "e", "c", "t", "i", "o", "n", " ", "t", "i", "m", "e", "o",
    "u", "t">>

PermanentErrors ==
  { <<"A", "c", "c", "e", "s", "s", " ", "d", "e", "n", "i", "e", "d">>,
    <<"P", "e", "r", "m", "i", "s", "s", "i", "o", "n", " ", "d", "e", "n", "i", "e", "d">>,
    <<"E", "A", "C", "C", "E", "S">>, <<"E", "P", "E", "R", "M">>,
    <<"R", "e", "s", "o", "u", "r", "c", "e", " ", "b", "u", "s", "y">>,
    <<"E", "B", "U", "S", "Y">> }

\* permanentErrors.some(errorType => error.message.includes(errorType))
SomeIncluded(message) == \E errorType \in PermanentErrors : Includes(message, errorType)

\* The test of line 604 on the messages of InboundErrors and TimeoutError,
\* worked out once.
PermanentAmongErrors ==
  {message \in InboundErrors \cup {TimeoutError} : SomeIncluded(message)}

IsPermanentError(message) ==
  IF message \in InboundErrors \cup {TimeoutError}
  THEN message \in PermanentAmongErrors
  ELSE SomeIncluded(message)

\* new SerialPort, setupPortHandlers, port.open (lines 572-588); old is the
\* object port named so far, os the other live objects.
OpenNewPort(old, os) ==
  /\ Len(Retire(os, old)) < MaxHandles
  /\ port' = Handle("opening", ~isShuttingDown, "cb")
  /\ orphans' = Retire(os, old)
  /\ parser' = IF ~isShuttingDown THEN "port"
               ELSE IF parser = "port" THEN "stale" ELSE parser

\* Variant of line 546 that does not read autoReconnect.
TimerCallbackIgnoresFlag == isShuttingDown

\* if (isShuttingDown || !autoReconnect) (line 546).
TimerCallbackReturns == isShuttingDown \/ ~autoReconnect

\* The callback of a timer of line 545 (lines 545-588) up to its first await.
BackoffTimerFires(tracked) ==
  /\ ~exited
  /\ IF tracked
     THEN reconnectTimer = "pending" /\ reconnectTimer' = "fired"
                                     /\ orphanTimers' = orphanTimers
     ELSE orphanTimers > 0 /\ orphanTimers' = orphanTimers - 1
                           /\ reconnectTimer' = reconnectTimer
  /\ step' = "backoffTimer"
  /\ lastLines' = <<>>
  /\ lastChunk' = <<>>
  /\ lastInput' = <<>>
  /\ lastWrite' = <<>>
  /\ lastError' = <<>>
  /\ IF TimerCallbackReturns
     THEN /\ isReconnecting' = FALSE
          /\ emitted' = <<>>
          /\ UNCHANGED connVars
     ELSE /\ isReconnecting' = isReconnecting
          /\ emitted' = Msg(TextAttemptingOpen, "cyan")
          /\ IF IsOpen(port)
             THEN /\ port' = [port EXCEPT !.st = "closing", !.ls = FALSE, !.w = "cb"]
                  /\ parser' = "null"
                  /\ UNCHANGED orphans
             ELSE OpenNewPort([port EXCEPT !.ls = FALSE], orphans)
  /\ UNCHANGED <<autoReconnect, reconnectAttempts, reconnectStartTime, elapsed,
                 currentReconnectDelay, permFailed, failedOpens, timerVars, procVars,
                 setVars, filterVars, statVars>>

\* port.close calls back (line 564); an awaiting reconnect callback goes on to
\* lines 572-588.  Every close the program asks for follows removeAllListeners,
\* so no close handler runs here.
CloseCompletes(t) ==
  /\ ~exited
  /\ HandleAt(t).st = "closing"
  /\ IF HandleAt(t).w = "cb"
     THEN OpenNewPort(PortWith(t, [HandleAt(t) EXCEPT !.st = "closed", !.w = "none"]),
                      IF t = 0 THEN orphans ELSE RemoveAt(orphans, t))
     ELSE /\ port' = PortWith(t, [HandleAt(t) EXCEPT !.st = "closed"])
          /\ orphans' = OrphansWith(t, [HandleAt(t) EXCEPT !.st = "closed"])
          /\ UNCHANGED parser
  /\ emitted' = <<>>
  /\ step' = "closeCompletes"
  /\ lastLines' = <<>>
  /\ lastChunk' = <<>>
  /\ lastInput' = <<>>
  /\ lastWrite' = <<>>
  /\ lastError' = <<>>
  /\ UNCHANGED <<reconVars, timerVars, procVars, setVars, filterVars, statVars>>

\* Variant of lines 590-596 without lines 593-594.
ReconnectSucceededKeepsDelay(r) ==
  [r EXCEPT !.recon = FALSE, !.attempts = 0,
            !.failed = 0,
            !.msgs = Msg(TextReconnected(r.attempts), "green")]

\* Variant of lines 590-596 without reconnectAttempts = 0.
ReconnectSucceededKeepsCount(r) ==
  [r EXCEPT !.recon = FALSE, !.start = "null", !.delay = 0,
            !.failed = 0,
            !.msgs = Msg(TextReconnected(r.attempts), "green")]

\* Lines 590-596.
ReconnectSucceeded(r) ==
  [r EXCEPT !.recon = FALSE, !.attempts = 0, !.start = "null", !.delay = 0,
            !.failed = 0,
            !.msgs = Msg(TextReconnected(r.attempts), "green")]

\* Variant of lines 598-620 whose permanent branch leaves reconnectAttempts alone.
ReconnectFailedKeepsCount(r, message) ==
  IF isShuttingDown THEN r
  ELSE IF IsPermanentError(message)
  THEN [r EXCEPT !.auto = FALSE, !.recon = FALSE,
                 !.failed = 0,
                 !.msgs = Msg(TextReconnectFailed(r.attempts, message), "red")
                          \o Msg(TextPermanent, "yellow")]
  ELSE [r EXCEPT !.recon = FALSE,
                 !.failed = r.failed + 1,
                 !.msgs = Msg(TextReconnectFailed(r.attempts, message), "red")]

\* Lines 598-620, for an error whose message is message.
ReconnectFailed(r, message) ==
  IF isShuttingDown THEN r
  ELSE IF IsPermanentError(message)
  THEN [r EXCEPT !.auto = FALSE, !.recon = FALSE, !.attempts = 0,
                 !.failed = 0,
                 !.msgs = Msg(TextReconnectFailed(r.attempts, message), "red")
                          \o Msg(TextPermanent, "yellow")]
  ELSE [r EXCEPT !.recon = FALSE,
                 !.failed = r.failed + 1,
                 !.msgs = Msg(TextReconnectFailed(r.attempts, message), "red")]

\* Variant of the catch of lines 598-620 that never arms the retry timer.
SchedulesNoRetry(message) == FALSE

\* Line 614: the transient branch arms a retry timer.
SchedulesRetry(message) == ~isShuttingDown /\ ~IsPermanentError(message)

AfterFailure(message) ==
  LET r == ReconnectFailed(ReconState, message) IN
  /\ SetReconState(r)
  /\ emitted' = r.msgs
  /\ permFailed' = (permFailed \/ (~isShuttingDown /\ IsPermanentError(message)))
  /\ IF SchedulesRetry(message)
     THEN guardedTimers < MaxTimers /\ guardedTimers' = guardedTimers + 1
     ELSE guardedTimers' = guardedTimers

\* The callback of port.open (lines 584-587) of a reconnect attempt runs; if
\* the attempt's 5 s timer has fired before, nothing awaits it any more.
OpenCompletes(t, ok, message) ==
  /\ ~exited
  /\ HandleAt(t).st = "opening" /\ HandleAt(t).w # "init"
  /\ port' = PortWith(t, [HandleAt(t) EXCEPT !.st = IF ok THEN "open" ELSE "closed",
                                             !.w = "none"])
  /\ orphans' = OrphansWith(t, [HandleAt(t) EXCEPT
                                  !.st = IF ok THEN "open" ELSE "closed",
                                  !.w = "none"])
  /\ IF HandleAt(t).w = "none"
     THEN /\ emitted' = <<>>
          /\ UNCHANGED <<reconVars, guardedTimers>>
     ELSE IF ok
     THEN /\ SetReconState(ReconnectSucceeded(ReconState))
          /\ emitted' = ReconnectSucceeded(ReconState).msgs
          /\ UNCHANGED <<permFailed, guardedTimers>>
     ELSE AfterFailure(message)
  /\ step' = IF HandleAt(t).w = "none"
             THEN (IF ok THEN "lateOpenOk" ELSE "lateOpenFailed")
             ELSE (IF ok THEN "openOk" ELSE "openFailed")
  /\ lastError' = IF ok THEN <<>> ELSE message
  /\ lastLines' = <<>>
  /\ lastChunk' = <<>>
  /\ lastInput' = <<>>
  /\ lastWrite' = <<>>
  /\ UNCHANGED <<parser, kickTimers, procVars, setVars, filterVars, statVars>>

\* The 5 s timer of line 583 fires before the open callback: the attempt ends
\* as failed while the object goes on opening.
OpenTimeout(t) ==
  /\ ~exited
  /\ HandleAt(t).st = "opening" /\ HandleAt(t).w = "cb"
  /\ port' = PortWith(t, [HandleAt(t) EXCEPT !.w = "none"])
  /\ orphans' = OrphansWith(t, [HandleAt(t) EXCEPT !.w = "none"])
  /\ AfterFailure(TimeoutError)
  /\ step' = "openTimeout"
  /\ lastError' = TimeoutError
  /\ lastLines' = <<>>
  /\ lastChunk' = <<>>
  /\ lastInput' = <<>>
  /\ lastWrite' = <<>>
  /\ UNCHANGED <<parser, kickTimers, procVars, setVars, filterVars, statVars>>

\* Variant of the close handler that never arms its timer.
CloseArmsNoTimer == FALSE

\* if (autoReconnect && !isReconnecting) (line 668).
CloseArmsTimer == autoReconnect /\ ~isReconnecting

\* The device goes away: an open object closes and emits 'close'; the close
\* handler of lines 665-675 runs if it is still attached.
Disconnect(t) ==
  /\ ~exited
  /\ IsOpen(HandleAt(t))
  /\ port' = PortWith(t, [HandleAt(t) EXCEPT !.st = "closed"])
  /\ orphans' = OrphansWith(t, [HandleAt(t) EXCEPT !.st = "closed"])
  /\ IF HandleAt(t).ls /\ ~isShuttingDown
     THEN /\ emitted' = Msg(TextDisconnected, "yellow")
          /\ IF CloseArmsTimer
             THEN guardedTimers < MaxTimers /\ guardedTimers' = guardedTimers + 1
             ELSE guardedTimers' = guardedTimers
     ELSE /\ emitted' = <<>>
          /\ guardedTimers' = guardedTimers
  /\ step' = "disconnect"
  /\ lastLines' = <<>>
  /\ lastChunk' = <<>>
  /\ lastInput' = <<>>
  /\ lastWrite' = <<>>
  /\ lastError' = <<>>
  /\ UNCHANGED <<parser, reconVars, kickTimers, procVars, setVars, filterVars,
                 statVars>>

TransportError ==
  <<"E", "r", "r", "o", "r", ":", " ", "I", "n", "p", "u", "t", "/", "o", "u", "t",
    "p", "u", "t", " ", "e", "r", "r", "o", "r">>

\* An error nothing catches reaches the handler of lines 991-994: it prints
\* the message and calls process.exit(1), whose 'exit' event runs cleanup()
\* (line 937).
UncaughtException(message) == Cleanup(TRUE, "uncaughtException", message)

\* An open object emits 'error': to the handler of lines 660-663 if its
\* listeners are attached; an object without an 'error' listener throws the
\* error out of emit instead.
PortError(t) ==
  /\ ~exited
  /\ IsOpen(HandleAt(t))
  /\ IF HandleAt(t).ls
     THEN /\ emitted' = IF isShuttingDown THEN <<>>
                        ELSE Msg(TextPortError(TransportError), "red")
          /\ step' = "portError"
          /\ lastLines' = <<>>
          /\ lastChunk' = <<>>
          /\ lastInput' = <<>>
          /\ lastWrite' = <<>>
          /\ lastError' = TransportError
          /\ UNCHANGED <<connVars, reconVars, timerVars, procVars, setVars, filterVars,
                         statVars>>
     ELSE UncaughtException(TransportError)

\* ------------------------------------------------------- inbound data
\* The parser 'data' handler (lines 645-653) for the lines of one chunk.
RECURSIVE LineMessages(_)
LineMessages(lines) ==
  IF lines = <<>> THEN <<>>
  ELSE (IF Trim(Head(lines)) # <<>>
        THEN Msg(TextInbound(Trim(Head(lines))), "green") ELSE <<>>)
       \o LineMessages(Tail(lines))

\* Variant of lines 647-651 that counts blank lines too.
LineCountAll(lines) == Len(lines)

RECURSIVE LineCount(_)
LineCount(lines) ==
  IF lines = <<>> THEN 0
  ELSE (IF Trim(Head(lines)) # <<>> THEN 1 ELSE 0) + LineCount(Tail(lines))

RECURSIVE LineBytes(_)
LineBytes(lines) ==
  IF lines = <<>> THEN 0 ELSE ByteLength(Head(lines)) + LineBytes(Tail(lines))

\* An open object emits 'data' with chunk: the pipe feeds the parser, whose
\* lines reach the handler of lines 645-653, then the handler of lines 655-658.
PortData(t, chunk) ==
  /\ ~exited
  /\ IsOpen(HandleAt(t)) /\ HandleAt(t).ls
  /\ Len(ParserRest(HandleAt(t).buf \o chunk)) <= MaxBuffered
  /\ port' = PortWith(t, [HandleAt(t) EXCEPT !.buf = ParserRest(@ \o chunk)])
  /\ orphans' = OrphansWith(t, [HandleAt(t) EXCEPT !.buf = ParserRest(@ \o chunk)])
  /\ lastChunk' = chunk
  /\ lastInput' = <<>>
  /\ lastWrite' = <<>>
  /\ lastLines' = ParserLines(HandleAt(t).buf \o chunk)
  /\ IF isShuttingDown
     THEN /\ emitted' = <<>>
          /\ UNCHANGED <<bytesReceived, messagesReceived>>
     ELSE /\ emitted' = LineMessages(lastLines') \o AddHexData(chunk)
          /\ messagesReceived' = messagesReceived + LineCount(lastLines')
          /\ bytesReceived' = bytesReceived + LineBytes(lastLines')
          /\ bytesReceived' <= MaxBytes
  /\ step' = "portData"
  /\ lastError' = <<>>
  /\ UNCHANGED <<parser, reconVars, timerVars, procVars, setVars, filterVars, bytesSent,
                 startTime>>

\* ---------------------------------------------------------------- timers
\* A timer of lines 614-618 or 669-673 fires; cap bounds reconnectAttempts.
GuardedTimerFires(cap) ==
  /\ ~exited
  /\ guardedTimers > 0
  /\ guardedTimers' = guardedTimers - 1
  /\ GuardedRetry(ReconState).attempts <= cap
  /\ GuardedRetry(ReconState).orphans <= MaxTimers
  /\ SetReconState(GuardedRetry(ReconState))
  /\ emitted' = GuardedRetry(ReconState).msgs
  /\ step' = "guardedTimer"
  /\ lastLines' = <<>>
  /\ lastChunk' = <<>>
  /\ lastInput' = <<>>
  /\ lastWrite' = <<>>
  /\ lastError' = <<>>
  /\ UNCHANGED <<connVars, permFailed, kickTimers, procVars, setVars, filterVars,
                 statVars>>

\* A timer of line 832, 837 or 840 fires: attemptReconnect() with no guard.
KickTimerFires(cap) ==
  /\ ~exited
  /\ kickTimers > 0
  /\ kickTimers' = kickTimers - 1
  /\ AttemptReconnect(ReconState, isShuttingDown).attempts <= cap
  /\ AttemptReconnect(ReconState, isShuttingDown).orphans <= MaxTimers
  /\ SetReconState(AttemptReconnect(ReconState, isShuttingDown))
  /\ emitted' = AttemptReconnect(ReconState, isShuttingDown).msgs
  /\ step' = "kickTimer"
  /\ lastLines' = <<>>
  /\ lastChunk' = <<>>
  /\ lastInput' = <<>>
  /\ lastWrite' = <<>>
  /\ lastError' = <<>>
  /\ UNCHANGED <<connVars, permFailed, guardedTimers, procVars, setVars, filterVars,
                 statVars>>

\* The clock moves on by TickMs while reconnectStartTime is set: Date.now() of
\* line 361 is read that much later.
ClockAdvances ==
  /\ ~exited
  /\ reconnectStartTime = "set"
  /\ elapsed + TickMs <= MaxTicks * TickMs
  /\ elapsed' = elapsed + TickMs
  /\ emitted' = <<>>
  /\ step' = "clock"
  /\ lastLines' = <<>>
  /\ lastChunk' = <<>>
  /\ lastInput' = <<>>
  /\ lastWrite' = <<>>
  /\ lastError' = <<>>
  /\ UNCHANGED <<connVars, autoReconnect, isReconnecting, reconnectAttempts,
                 reconnectTimer, reconnectStartTime, currentReconnectDelay,
                 orphanTimers, permFailed, failedOpens, timerVars, procVars, setVars,
                 filterVars, statVars>>

\* ------------------------------------------------------------------ keys
\* Variant of disableScreenKeys that unbinds nothing.
DisableScreenKeysKeepsAll(n) == n

\* disableScreenKeys (lines 869-878): screen.unkey takes one binding of every
\* handler away.
DisableScreenKeys(n) == IF n > 0 THEN n - 1 ELSE 0

\* enableScreenKeys (lines 880-889): screen.key binds every handler once more.
EnableScreenKeys(n) == n + 1

\* The screen's key handlers run while the screen lives and no dialog has
\* unbound them (lines 855-889).
KeysEnabled == ~exited /\ uiReady /\ dialog = "none" /\ screenHandlers > 0

\* Variant of the R key handler without its isReconnecting branch.
KeyRBranchNoReset ==
  IF ~autoReconnect THEN "enable"
  ELSE IF ~IsOpen(port) THEN "start"
  ELSE "disable"

\* R key (lines 827-847).
KeyRBranch ==
  IF ~autoReconnect THEN "enable"
  ELSE IF isReconnecting THEN "reset"
  ELSE IF ~IsOpen(port) THEN "start"
  ELSE "disable"

KeyRRecon ==
  CASE KeyRBranch = "enable" ->
         [CancelReconnect([ReconState EXCEPT !.auto = TRUE])
            EXCEPT !.msgs = Msg(TextAutoEnabled, "green")]
    [] KeyRBranch = "reset" ->
         [CancelReconnect(ReconState) EXCEPT !.msgs = Msg(TextResetting, "cyan")]
    [] KeyRBranch = "start" ->
         [ReconState EXCEPT !.msgs = Msg(TextStarting, "cyan")]
    [] OTHER ->
         [CancelReconnect([ReconState EXCEPT !.auto = FALSE])
            EXCEPT !.msgs = Msg(TextAutoDisabled, "yellow")]

KeyRArmsTimer ==
  \/ KeyRBranch = "enable" /\ ~IsOpen(port)
  \/ KeyRBranch \in {"reset", "start"}

KeyR ==
  /\ KeysEnabled
  /\ SetReconState(KeyRRecon)
  /\ emitted' = KeyRRecon.msgs
  /\ permFailed' = IF KeyRBranch = "enable" THEN FALSE ELSE permFailed
  /\ IF KeyRArmsTimer
     THEN kickTimers < MaxTimers /\ kickTimers' = kickTimers + 1
     ELSE kickTimers' = kickTimers
  /\ step' = "keyR"
  /\ lastLines' = <<>>
  /\ lastChunk' = <<>>
  /\ lastInput' = <<>>
  /\ lastWrite' = <<>>
  /\ lastError' = <<>>
  /\ UNCHANGED <<connVars, guardedTimers, procVars, setVars, filterVars, statVars>>

\* Q or Ctrl-C key: cleanup() and process.exit(0) (lines 763-766).
KeyQ == KeysEnabled /\ Cleanup(TRUE, "keyQ", <<>>)

\* Variant of the P key handler that also clears the traffic counters.
KeyPClearsCounters ==
  /\ KeysEnabled
  /\ pauseLogging' = ~pauseLogging
  /\ emitted' = AddMessage(TextLogging(~pauseLogging), "yellow", isShuttingDown, uiReady,
                           ~pauseLogging, filterEnabled, filterText, screenWidth,
                           compactMode)
  /\ bytesReceived' = 0 /\ bytesSent' = 0 /\ messagesReceived' = 0
  /\ step' = "keyP"
  /\ lastLines' = <<>>
  /\ lastChunk' = <<>>
  /\ lastInput' = <<>>
  /\ lastWrite' = <<>>
  /\ lastError' = <<>>
  /\ UNCHANGED <<connVars, reconVars, timerVars, procVars, showHex, showStats, echoMode,
                 lineEnding, filterVars, startTime>>

\* The P handler run once for each of its n bindings, from paused.
RECURSIVE KeyPRuns(_, _)
KeyPRuns(n, paused) ==
  IF n = 0 THEN [paused |-> paused, msgs |-> <<>>]
  ELSE [paused |-> KeyPRuns(n - 1, ~paused).paused,
        msgs |-> AddMessage(TextLogging(~paused), "yellow", isShuttingDown, uiReady,
                            ~paused, filterEnabled, filterText, screenWidth,
                            compactMode)
                 \o KeyPRuns(n - 1, ~paused).msgs]

\* P or Space key (lines 793-798).
KeyP ==
  /\ KeysEnabled
  /\ pauseLogging' = KeyPRuns(screenHandlers, pauseLogging).paused
  /\ emitted' = KeyPRuns(screenHandlers, pauseLogging).msgs
  /\ step' = "keyP"
  /\ lastLines' = <<>>
  /\ lastChunk' = <<>>
  /\ lastInput' = <<>>
  /\ lastWrite' = <<>>
  /\ lastError' = <<>>
  /\ UNCHANGED <<connVars, reconVars, timerVars, procVars, showHex, showStats, echoMode,
                 lineEnding, filterVars, statVars>>

\* H key (lines 779-783): the layout is rebuilt with or without the hex area.
KeyH ==
  /\ KeysEnabled
  /\ showHex' = ~showHex
  /\ emitted' = Msg(TextHexView(~showHex), "yellow")
  /\ step' = "keyH"
  /\ lastLines' = <<>>
  /\ lastChunk' = <<>>
  /\ lastInput' = <<>>
  /\ lastWrite' = <<>>
  /\ lastError' = <<>>
  /\ UNCHANGED <<connVars, reconVars, timerVars, procVars, pauseLogging, showStats,
                 echoMode, lineEnding, filterVars, statVars>>

\* S key (lines 786-790): the layout is rebuilt with the status panel at its
\* other height.
KeyS ==
  /\ KeysEnabled
  /\ showStats' = ~showStats
  /\ emitted' = Msg(TextStatistics(~showStats), "yellow")
  /\ step' = "keyS"
  /\ lastLines' = <<>>
  /\ lastChunk' = <<>>
  /\ lastInput' = <<>>
  /\ lastWrite' = <<>>
  /\ lastError' = <<>>
  /\ UNCHANGED <<connVars, reconVars, timerVars, procVars, pauseLogging, showHex,
                 echoMode, lineEnding, filterVars, statVars>>

\* The sizes the terminal is given.
ScreenSizes == {<<80, 24>>, <<120, 30>>, <<120, 15>>}

\* The terminal gets another size: handleResize (lines 249-265) destroys the
\* components and creates them again with the layout of calculateLayout; after
\* cleanup() the screen has no 'resize' listener.
Resize(size) ==
  /\ ~exited /\ ~isShuttingDown
  /\ size # <<screenWidth, screenHeight>>
  /\ screenWidth' = size[1]
  /\ screenHeight' = size[2]
  /\ compactMode' = CompactMode(size[1], size[2])
  /\ uiReady' = TRUE
  /\ emitted' = <<>>
  /\ step' = "resize"
  /\ lastLines' = <<>>
  /\ lastChunk' = <<>>
  /\ lastInput' = <<>>
  /\ lastWrite' = <<>>
  /\ lastError' = <<>>
  /\ UNCHANGED <<connVars, reconVars, timerVars, isShuttingDown, exited, updateTimer,
                 dialog, screenHandlers, setVars, filterVars, statVars>>

\* F key: showFilterDialog unbinds the screen keys and opens its textbox
\* (lines 473-532).
KeyF ==
  /\ KeysEnabled
  /\ dialog' = "filter"
  /\ screenHandlers' = DisableScreenKeys(screenHandlers)
  /\ emitted' = <<>>
  /\ step' = "keyF"
  /\ lastLines' = <<>>
  /\ lastChunk' = <<>>
  /\ lastInput' = <<>>
  /\ lastWrite' = <<>>
  /\ lastError' = <<>>
  /\ UNCHANGED <<connVars, reconVars, timerVars, isShuttingDown, exited, uiReady,
                 layoutVars, updateTimer, setVars, filterVars, statVars>>

\* Variant of line 509 that enables the filter whatever the text.
FilterAlwaysOn(text) == TRUE

\* Boolean(filterText) (line 509).
FilterIsOn(text) == text # <<>>

\* The filter textbox submits value (lines 507-512).
FilterSubmit(value) ==
  /\ ~exited /\ dialog = "filter"
  /\ filterText' = value
  /\ filterEnabled' = FilterIsOn(value)
  /\ emitted' = AddMessage(TextFilter(FilterIsOn(value), value), "yellow",
                           isShuttingDown, uiReady, pauseLogging, FilterIsOn(value),
                           value, screenWidth, compactMode)
  /\ dialog' = "none"
  /\ screenHandlers' = EnableScreenKeys(screenHandlers)
  /\ step' = "filterSubmit"
  /\ lastLines' = <<>>
  /\ lastChunk' = <<>>
  /\ lastInput' = value
  /\ lastWrite' = <<>>
  /\ lastError' = <<>>
  /\ UNCHANGED <<connVars, reconVars, timerVars, isShuttingDown, exited, uiReady,
                 layoutVars, updateTimer, setVars, statVars>>

\* The filter textbox is cancelled (lines 514-520).
FilterCancel ==
  /\ ~exited /\ dialog = "filter"
  /\ dialog' = "none"
  /\ screenHandlers' = EnableScreenKeys(screenHandlers)
  /\ emitted' = <<>>
  /\ step' = "filterCancel"
  /\ lastLines' = <<>>
  /\ lastChunk' = <<>>
  /\ lastInput' = <<>>
  /\ lastWrite' = <<>>
  /\ lastError' = <<>>
  /\ UNCHANGED <<connVars, reconVars, timerVars, isShuttingDown, exited, uiReady,
                 layoutVars, updateTimer, setVars, filterVars, statVars>>

\* I key: showInputDialog (lines 396-422) refuses without an open port,
\* otherwise unbinds the screen keys and opens its textbox.
KeyI ==
  /\ KeysEnabled
  /\ IF isShuttingDown \/ ~IsOpen(port)
     THEN /\ emitted' = Msg(TextNotConnected, "yellow")
          /\ dialog' = dialog
          /\ screenHandlers' = screenHandlers
     ELSE /\ emitted' = <<>>
          /\ dialog' = "input"
          /\ screenHandlers' = DisableScreenKeys(screenHandlers)
  /\ step' = "keyI"
  /\ lastLines' = <<>>
  /\ lastChunk' = <<>>
  /\ lastInput' = <<>>
  /\ lastWrite' = <<>>
  /\ lastError' = <<>>
  /\ UNCHANGED <<connVars, reconVars, timerVars, isShuttingDown, exited, uiReady,
                 layoutVars, updateTimer, setVars, filterVars, statVars>>

\* Variant of the endings table that ends every line with a line feed alone.
EndingLineFeedOnly(mode) == <<"\n">>

\* endings[lineEnding] (line 436)
Ending(mode) ==
  CASE mode = "LF" -> <<"\n">> [] mode = "CR" -> <<"\r">> [] OTHER -> <<"\r", "\n">>

\* The guard of line 435.
\* Variant of line 444 that assigns where the code adds.
BytesSentLast(data) == ByteLength(data)

\* bytesSent += Buffer.from(dataToSend).length (line 444).
BytesSentAfter(data) == bytesSent + ByteLength(data)

SubmitSends(value) == value # <<>> /\ IsOpen(port) /\ ~isShuttingDown

\* The send textbox submits value (lines 434-450).
InputSubmit(value) ==
  /\ ~exited /\ dialog = "input"
  /\ lastInput' = value
  /\ IF SubmitSends(value)
     THEN /\ lastWrite' = value \o Ending(lineEnding)
          /\ emitted' = IF echoMode THEN Msg(TextSent(value), "blue") ELSE <<>>
          /\ bytesSent' = BytesSentAfter(value \o Ending(lineEnding))
          /\ bytesSent' <= MaxSent
     ELSE /\ lastWrite' = <<>>
          /\ emitted' = <<>>
          /\ bytesSent' = bytesSent
  /\ dialog' = "none"
  /\ screenHandlers' = EnableScreenKeys(screenHandlers)
  /\ step' = "inputSubmit"
  /\ lastLines' = <<>>
  /\ lastChunk' = <<>>
  /\ lastError' = <<>>
  /\ UNCHANGED <<connVars, reconVars, timerVars, isShuttingDown, exited, uiReady,
                 layoutVars, updateTimer, setVars, filterVars, bytesReceived, messagesReceived,
                 startTime>>

\* The send textbox submits value and port.write throws: the catch of lines
\* 445-447 logs the failure, line 444 is skipped, the dialog closes (line 449).
InputSubmitThrows(value) ==
  /\ ~exited /\ dialog = "input"
  /\ SubmitSends(value)
  /\ lastInput' = value
  /\ lastWrite' = <<>>
  /\ emitted' = Msg(TextSendFailed(TransportError), "red")
  /\ dialog' = "none"
  /\ screenHandlers' = EnableScreenKeys(screenHandlers)
  /\ step' = "inputSubmitThrows"
  /\ lastLines' = <<>>
  /\ lastChunk' = <<>>
  /\ lastError' = TransportError
  /\ UNCHANGED <<connVars, reconVars, timerVars, isShuttingDown, exited, uiReady,
                 layoutVars, updateTimer, setVars, filterVars, statVars>>

\* The send textbox is cancelled (lines 452-458).
InputCancel ==
  /\ ~exited /\ dialog = "input"
  /\ dialog' = "none"
  /\ screenHandlers' = EnableScreenKeys(screenHandlers)
  /\ emitted' = <<>>
  /\ step' = "inputCancel"
  /\ lastLines' = <<>>
  /\ lastChunk' = <<>>
  /\ lastInput' = <<>>
  /\ lastWrite' = <<>>
  /\ lastError' = <<>>
  /\ UNCHANGED <<connVars, reconVars, timerVars, isShuttingDown, exited, uiReady,
                 layoutVars, updateTimer, setVars, filterVars, statVars>>

\* ? key: showHelpDialog unbinds the screen keys and opens its box
\* (lines 684-754).
KeyHelp ==
  /\ KeysEnabled
  /\ IF isShuttingDown
     THEN UNCHANGED <<dialog, screenHandlers>>
     ELSE /\ dialog' = "help"
          /\ screenHandlers' = DisableScreenKeys(screenHandlers)
  /\ emitted' = <<>>
  /\ step' = "keyHelp"
  /\ lastLines' = <<>>
  /\ lastChunk' = <<>>
  /\ lastInput' = <<>>
  /\ lastWrite' = <<>>
  /\ lastError' = <<>>
  /\ UNCHANGED <<connVars, reconVars, timerVars, isShuttingDown, exited, uiReady,
                 layoutVars, updateTimer, setVars, filterVars, statVars>>

\* A key pressed in the help box: closeHelp (lines 738-745) drops the box's
\* listeners, destroys it and binds the screen keys again.
HelpClose ==
  /\ ~exited /\ dialog = "help"
  /\ dialog' = "none"
  /\ screenHandlers' = EnableScreenKeys(screenHandlers)
  /\ emitted' = <<>>
  /\ step' = "helpClose"
  /\ lastLines' = <<>>
  /\ lastChunk' = <<>>
  /\ lastInput' = <<>>
  /\ lastWrite' = <<>>
  /\ lastError' = <<>>
  /\ UNCHANGED <<connVars, reconVars, timerVars, isShuttingDown, exited, uiReady,
                 layoutVars, updateTimer, setVars, filterVars, statVars>>

\* Variant of lines 820-822 that alternates between two modes.
NextLineEndingTwoModes(mode) == IF mode = "LF" THEN "CR" ELSE "LF"

\* endings[(currentIndex + 1) % endings.length] (lines 820-822)
NextLineEnding(mode) ==
  CASE mode = "LF" -> "CR" [] mode = "CR" -> "CRLF" [] OTHER -> "LF"

\* L key (lines 819-824).
KeyL ==
  /\ KeysEnabled
  /\ lineEnding' = NextLineEnding(lineEnding)
  /\ emitted' = Msg(TextLineEnding(NextLineEnding(lineEnding)), "yellow")
  /\ step' = "keyL"
  /\ lastLines' = <<>>
  /\ lastChunk' = <<>>
  /\ lastInput' = <<>>
  /\ lastWrite' = <<>>
  /\ lastError' = <<>>
  /\ UNCHANGED <<connVars, reconVars, timerVars, procVars, pauseLogging, showHex,
                 showStats, echoMode, filterVars, statVars>>

\* E key (lines 813-816).
KeyE ==
  /\ KeysEnabled
  /\ echoMode' = ~echoMode
  /\ emitted' = Msg(TextEchoMode(~echoMode), "yellow")
  /\ step' = "keyE"
  /\ lastLines' = <<>>
  /\ lastChunk' = <<>>
  /\ lastInput' = <<>>
  /\ lastWrite' = <<>>
  /\ lastError' = <<>>
  /\ UNCHANGED <<connVars, reconVars, timerVars, procVars, pauseLogging, showHex,
                 showStats, lineEnding, filterVars, statVars>>

\* -------------------------------------------------------------- inputs
OpenErrors == InboundErrors

\* C key (lines 800-810): the two panes are emptied, nothing else changes.
KeyC ==
  /\ KeysEnabled
  /\ emitted' = Msg(TextLogsCleared, "yellow")
  /\ step' = "keyC"
  /\ lastLines' = <<>>
  /\ lastChunk' = <<>>
  /\ lastInput' = <<>>
  /\ lastWrite' = <<>>
  /\ lastError' = <<>>
  /\ UNCHANGED <<connVars, reconVars, timerVars, procVars, setVars, filterVars,
                 statVars>>

InboundBytes == {"T", "s", " ", "\n"}

RECURSIVE TextsUpTo(_, _)
TextsUpTo(chars, n) ==
  IF n = 0 THEN {<<>>}
  ELSE TextsUpTo(chars, n - 1)
       \cup {Append(x, c) : x \in TextsUpTo(chars, n - 1), c \in chars}

Chunks == TextsUpTo(InboundBytes, MaxChunkLen) \ {<<>>}

FilterChars == {"t", "T", " "}

FilterInputs == TextsUpTo(FilterChars, MaxFilterLen)

SendChars == {"p", "U+00E9"}

SendInputs == TextsUpTo(SendChars, MaxSendLen) \cup {<<"p", "i", "n", "g">>}

\* --------------------------------------------------- the whole session
\* Connection life cycle with the auto-reconnect key and shutdown.
Next ==
  \/ InitialOpenOk
  \/ \E m \in OpenErrors \cup {TimeoutError} : InitialOpenFails(m)
  \/ \E tracked \in BOOLEAN : BackoffTimerFires(tracked)
  \/ \E t \in Targets : CloseCompletes(t)
  \/ \E t \in Targets : OpenCompletes(t, TRUE, <<>>)
  \/ \E t \in Targets, m \in OpenErrors : OpenCompletes(t, FALSE, m)
  \/ \E t \in Targets : OpenTimeout(t)
  \/ \E t \in Targets : Disconnect(t)
  \/ \E t \in Targets : PortError(t)
  \/ GuardedTimerFires(MaxAttempts)
  \/ KickTimerFires(MaxAttempts)
  \/ KeyR
  \/ KeyQ
  \/ Signal

Spec == Init /\ [][Next]_vars

\* The session left to itself: transport events and timers only.
NextAuto ==
  \/ InitialOpenOk
  \/ \E m \in OpenErrors \cup {TimeoutError} : InitialOpenFails(m)
  \/ BackoffTimerFires(TRUE)
  \/ \E t \in Targets : CloseCompletes(t)
  \/ \E t \in Targets : OpenCompletes(t, TRUE, <<>>)
  \/ \E t \in Targets, m \in OpenErrors : OpenCompletes(t, FALSE, m)
  \/ \E t \in Targets : OpenTimeout(t)
  \/ \E t \in Targets : Disconnect(t)
  \/ GuardedTimerFires(MaxBackoffAttempts)

SpecAuto == Init /\ [][NextAuto]_vars

\* The session left to itself, with its timers firing and every awaited open
\* or close ending: in a callback, or in the 5 s timeout of line 583.
OpenSettles ==
  \E t \in Targets :
    \/ OpenCompletes(t, TRUE, <<>>)
    \/ \E m \in OpenErrors : OpenCompletes(t, FALSE, m)
    \/ OpenTimeout(t)

SpecRecover ==
  /\ Init /\ [][NextAuto]_vars
  /\ WF_vars(GuardedTimerFires(MaxBackoffAttempts))
  /\ WF_vars(BackoffTimerFires(TRUE))
  /\ WF_vars(\E t \in Targets : CloseCompletes(t))
  /\ WF_vars(OpenSettles)

\* The connected session's inbound pipeline with the settings it reads.
NextData ==
  \/ InitialOpenOk
  \/ \E t \in Targets, chunk \in Chunks : PortData(t, chunk)
  \/ \E t \in Targets : PortError(t)
  \/ KeyP
  \/ KeyH
  \/ KeyF
  \/ \E value \in FilterInputs : FilterSubmit(value)
  \/ FilterCancel

SpecData == Init /\ [][NextData]_vars

\* The send dialog with the settings it reads, on a port that may go away.
NextSend ==
  \/ InitialOpenOk
  \/ \E t \in Targets : Disconnect(t)
  \/ KeyI
  \/ \E value \in SendInputs : InputSubmit(value)
  \/ \E value \in SendInputs : InputSubmitThrows(value)
  \/ InputCancel
  \/ KeyL
  \/ KeyE
  \/ KeyP

SpecSend == Init /\ [][NextSend]_vars

\* Traffic in both directions across disconnects, reconnects and user commands;
\* transport events are those of the object port names.
StatChunks == {<<"T", "\n">>}
StatSends == {<<"p">>, <<"p", "i", "n", "g">>}

NextStats ==
  \/ InitialOpenOk
  \/ \E chunk \in StatChunks : PortData(0, chunk)
  \/ KeyI
  \/ \E value \in StatSends : InputSubmit(value)
  \/ KeyC
  \/ KeyR
  \/ Disconnect(0)
  \/ GuardedTimerFires(MaxAttempts)
  \/ KickTimerFires(MaxAttempts)
  \/ BackoffTimerFires(TRUE)
  \/ CloseCompletes(0)
  \/ OpenCompletes(0, TRUE, <<>>)
  \/ \E m \in OpenErrors : OpenCompletes(0, FALSE, m)

SpecStats == Init /\ [][NextStats]_vars

\* Line endings in both directions: the L key, sends, and inbound chunks with
\* carriage returns and line feeds.
EndingChunks == {<<"T">>, <<"\r">>, <<"\n">>, <<"T", "\r", "\n">>}

NextEnding ==
  \/ InitialOpenOk
  \/ \E chunk \in EndingChunks : PortData(0, chunk)
  \/ KeyL
  \/ KeyI
  \/ InputSubmit(<<"p">>)
  \/ InputCancel

SpecEnding == Init /\ [][NextEnding]_vars

\* The hex pane under every pause, hex and filter setting, fed with a chunk
\* that ends no line, one that ends a line, one of eleven and one of thirteen
\* bytes, on terminals of every size of ScreenSizes.
LongChunk == <<"T", "\n", "\n", "\n", "\n", "\n", "\n", "\n", "\n", "\n", "\n">>
LongerChunk == LongChunk \o <<"\n", "\n">>
HexChunks == {<<"T">>, <<"T", "\n">>, LongChunk, LongerChunk}

NextHex ==
  \/ InitialOpenOk
  \/ \E chunk \in HexChunks : PortData(0, chunk)
  \/ KeyH
  \/ KeyP
  \/ KeyF
  \/ \E value \in FilterInputs : FilterSubmit(value)
  \/ \E size \in ScreenSizes : Resize(size)

SpecHex == Init /\ [][NextHex]_vars

\* The display toggles pressed at every point of a disconnect and reconnect
\* of the object port names, with inbound traffic.
NextToggles ==
  \/ InitialOpenOk
  \/ Disconnect(0)
  \/ GuardedTimerFires(MaxAttempts)
  \/ BackoffTimerFires(TRUE)
  \/ OpenCompletes(0, TRUE, <<>>)
  \/ \E chunk \in StatChunks : PortData(0, chunk)
  \/ KeyP
  \/ KeyH
  \/ KeyS
  \/ KeyE
  \/ KeyL
  \/ KeyF
  \/ \E value \in {<<>>, <<"t">>} : FilterSubmit(value)
  \/ FilterCancel

SpecToggles == Init /\ [][NextToggles]_vars

\* Disconnects, reconnect attempts and the auto-reconnect key of the object port
\* names, while the clock runs.
NextCountdown ==
  \/ InitialOpenOk
  \/ Disconnect(0)
  \/ GuardedTimerFires(MaxAttempts)
  \/ BackoffTimerFires(TRUE)
  \/ OpenCompletes(0, TRUE, <<>>)
  \/ \E m \in OpenErrors : OpenCompletes(0, FALSE, m)
  \/ KeyR
  \/ KickTimerFires(MaxAttempts)
  \/ ClockAdvances

SpecCountdown == Init /\ [][NextCountdown]_vars

\* The three dialogs opened and closed in every order on a port that may go
\* away, with the pause key between them.
NextDialogs ==
  \/ InitialOpenOk
  \/ Disconnect(0)
  \/ KeyI
  \/ \E value \in {<<>>, <<"p">>} : InputSubmit(value)
  \/ InputSubmitThrows(<<"p">>)
  \/ InputCancel
  \/ KeyF
  \/ \E value \in {<<>>, <<"t">>} : FilterSubmit(value)
  \/ FilterCancel
  \/ KeyHelp
  \/ HelpClose
  \/ KeyP

SpecDialogs == Init /\ [][NextDialogs]_vars

\* Disconnects, errors, inbound data and reconnects of the object port names,
\* under every pause and filter setting.
NextReport ==
  \/ InitialOpenOk
  \/ Disconnect(0)
  \/ GuardedTimerFires(MaxAttempts)
  \/ BackoffTimerFires(TRUE)
  \/ OpenCompletes(0, TRUE, <<>>)
  \/ \E m \in OpenErrors : OpenCompletes(0, FALSE, m)
  \/ PortError(0)
  \/ \E chunk \in StatChunks : PortData(0, chunk)
  \/ KeyI
  \/ InputCancel
  \/ KeyP
  \/ KeyF
  \/ \E value \in FilterInputs : FilterSubmit(value)
  \/ \E size \in ScreenSizes : Resize(size)

SpecReport == Init /\ [][NextReport]_vars

\* ------------------------------------------------------------ properties

\* C1: at every instant at most one port handle is open, and no handle is
\* created while an earlier handle is still open, opening or closing (an
\* earlier handle that is still live next to the one port names is in orphans).
C1_SingleLiveHandle ==
  /\ Cardinality({t \in Targets : IsOpen(HandleAt(t))}) <= 1
  /\ orphans = <<>>

\* C2: while the session's port handle is open, isReconnecting is false and
\* the session is not left permanently failed.
C2_ConnectedExcludesReconnecting ==
  IsOpen(port) => (~isReconnecting /\ ~permFailed /\ StatusShown # "Reconnecting")

\* C3: the delay attemptReconnect schedules for attempt n is 1000, 2000, 4000,
\* 8000, 16000 for n = 1..5 and 30000 for n >= 6; it is not below the delay of
\* any earlier attempt and lies within [1000, 30000].
C3_BackoffDelay ==
  isReconnecting =>
    /\ reconnectAttempts >= 1
    /\ currentReconnectDelay =
         (CASE reconnectAttempts = 1 -> 1000 [] reconnectAttempts = 2 -> 2000
            [] reconnectAttempts = 3 -> 4000 [] reconnectAttempts = 4 -> 8000
            [] reconnectAttempts = 5 -> 16000 [] OTHER -> 30000)
    /\ \A m \in 1..reconnectAttempts : BackoffDelay(m) <= currentReconnectDelay
    /\ currentReconnectDelay \in 1000..30000

\* An attempt beyond the sixth is scheduled, with the capped delay.
C3_Witness ==
  isReconnecting /\ reconnectAttempts = 7 /\ currentReconnectDelay = 30000

\* C4: every inbound chunk adds its length to bytesReceived, so that
\* bytesReceived after N chunks is the sum of the N chunk lengths.
C4_BytesAreChunkLengths ==
  [][step' = "portData" => bytesReceived' = bytesReceived + Len(lastChunk')]_vars

\* C5 (as amended): when the open a reconnect attempt awaits fails with a
\* permission-denied or resource-busy class error and shutdown has not begun,
\* the same step leaves autoReconnect false, reconnectAttempts 0 and
\* isReconnecting false, and the session permanently failed.
C5_PermanentReconnectFailure ==
  (step = "openFailed" /\ IsPermanentError(lastError) /\ ~isShuttingDown) =>
    (~autoReconnect /\ reconnectAttempts = 0 /\ ~isReconnecting /\ permFailed)

\* C5 as stated: whenever an open fails with such an error (the initial open
\* and an open that fails after its timeout was reported included), the step
\* leaves autoReconnect false, reconnectAttempts 0 and isReconnecting false.
C5_AnyOpenFailure ==
  (step \in {"initialOpenFails", "openFailed", "lateOpenFailed"}
   /\ IsPermanentError(lastError)) =>
    (~autoReconnect /\ reconnectAttempts = 0 /\ ~isReconnecting)

\* The second reconnect attempt has just failed with a permanent error.
C5_Witness ==
  /\ step = "openFailed" /\ IsPermanentError(lastError) /\ ~isShuttingDown
  /\ emitted # <<>> /\ emitted[1] = Logged("red", TextReconnectFailed(2, lastError))
  /\ ~autoReconnect /\ reconnectAttempts = 0

\* C6 (as amended): with no user input, the attempt scheduled after k failed
\* opens (k <= 3) has ordinal k + 1 and delay 1000, 2000, 4000, 8000 ms, and an
\* open that succeeds after three failed opens is the one of attempt 4 (delay
\* 8000 ms); it leaves the port open and reconnectAttempts 0.
C6_ThreeFailuresThenSuccess ==
  [][/\ (isReconnecting' /\ ~isReconnecting /\ failedOpens <= 3) =>
          /\ reconnectAttempts' = failedOpens + 1
          /\ currentReconnectDelay' = <<1000, 2000, 4000, 8000>>[failedOpens + 1]
     /\ (step' = "openOk" /\ failedOpens = 3) =>
          /\ reconnectAttempts = 4 /\ currentReconnectDelay = 8000
          /\ IsOpen(port') /\ ~isReconnecting' /\ reconnectAttempts' = 0]_vars

\* C6 as stated: an open that succeeds after three failed opens ends a run
\* whose attempt ordinals are 1, 2, 3 (the last delay 4000 ms); it leaves the
\* port open and reconnectAttempts 0.
C6_OrdinalsOneToThree ==
  [][(step' = "openOk" /\ failedOpens = 3) =>
       /\ reconnectAttempts = 3 /\ currentReconnectDelay = 4000
       /\ IsOpen(port') /\ ~isReconnecting' /\ reconnectAttempts' = 0]_vars

\* The open of attempt 4 has just succeeded: three opens failed before it.
C6_Witness ==
  /\ step = "openOk"
  /\ emitted = <<Logged("green", TextReconnected(4))>>
  /\ IsOpen(port) /\ reconnectAttempts = 0 /\ StatusShown = "Connected"

\* C7: a call of cleanup() after shutdown has begun closes nothing, cancels
\* nothing and leaves the program's state unchanged.
C7_ShutdownIdempotent ==
  [][(isShuttingDown /\ step' = "signal") =>
       UNCHANGED <<connVars, reconVars, timerVars, procVars, setVars, filterVars,
                   statVars>>]_vars

\* cleanup() has just run with port open: a first call never leaves it open,
\* so this call was a later one.
C7_Witness == step = "signal" /\ isShuttingDown /\ IsOpen(port)

\* C8: once shutdown has begun no backoff timer is pending and no handle is
\* open (so none is opened afterwards).
C8_ShutdownWins ==
  isShuttingDown =>
    /\ \A t \in Targets : ~IsOpen(HandleAt(t))
    /\ reconnectTimer # "pending"

\* C9: while pause is on, inbound data emits no message and no hex event, and
\* a transport error event still emits its message.
C9_PauseSuppressesData ==
  pauseLogging =>
    /\ step = "portData" => emitted = <<>>
    /\ step = "portError" => emitted = <<Logged("red", TextPortError(TransportError))>>

\* A chunk completing a non-blank line has arrived while paused, the hex area shown.
C9_Witness ==
  /\ step = "portData" /\ pauseLogging /\ showHex
  /\ lastLines # <<>> /\ Trim(lastLines[1]) # <<>>

\* C10: with a non-empty filter enabled and pause off, an inbound line is
\* delivered to the sink exactly when its lowercase form contains the
\* lowercase filter text.
C10_FilterOnLine ==
  (step = "portData" /\ filterEnabled /\ filterText # <<>> /\ ~pauseLogging
   /\ Len(lastLines) = 1) =>
    ((\E i \in 1..Len(emitted) : emitted[i].kind = "message")
       <=> Includes(ToLowerCase(lastLines[1]), ToLowerCase(filterText)))

\* C11 (as amended): a send of a non-empty text t with line-ending mode m while
\* the port is open writes exactly t followed by the bytes of m (LF = \n,
\* CR = \r, CRLF = \r\n) and adds the byte length of what was written to
\* bytesSent; "ping" with CRLF writes "ping\r\n" and adds 6.
C11_SendWritesTextAndEnding ==
  [][(step' = "inputSubmit" /\ lastInput' # <<>> /\ IsOpen(port) /\ ~isShuttingDown) =>
       /\ lastWrite' = lastInput' \o (CASE lineEnding = "LF" -> <<"\n">>
                                        [] lineEnding = "CR" -> <<"\r">>
                                        [] lineEnding = "CRLF" -> <<"\r", "\n">>)
       /\ bytesSent' = bytesSent + ByteLength(lastWrite')
       /\ (lastInput' = <<"p", "i", "n", "g">> /\ lineEnding = "CRLF") =>
            /\ lastWrite' = <<"p", "i", "n", "g", "\r", "\n">>
            /\ bytesSent' = bytesSent + 6]_vars

\* C11 as stated: the same for every text t, the empty text included.
C11_SendWritesAnyText ==
  [][(step' = "inputSubmit" /\ IsOpen(port) /\ ~isShuttingDown) =>
       /\ lastWrite' = lastInput' \o (CASE lineEnding = "LF" -> <<"\n">>
                                        [] lineEnding = "CR" -> <<"\r">>
                                        [] lineEnding = "CRLF" -> <<"\r", "\n">>)
       /\ bytesSent' = bytesSent + ByteLength(lastWrite')]_vars

\* "ping" has just been sent with CRLF as the session's first send.
C11_Witness ==
  /\ step = "inputSubmit" /\ lineEnding = "CRLF" /\ IsOpen(port)
  /\ lastInput = <<"p", "i", "n", "g">>
  /\ lastWrite = <<"p", "i", "n", "g", "\r", "\n">>
  /\ bytesSent = 6

\* C12: a send requested while the port is not open (the I key, or a text
\* submitted after the port closed under the open dialog) reports that the
\* port is not connected, writes nothing and leaves bytesSent unchanged.
C12_SendWithoutPort ==
  [][(/\ ~IsOpen(port)
      /\ \/ step' = "keyI"
         \/ step' = "inputSubmit" /\ lastInput' # <<>>) =>
       /\ emitted' = <<Logged("yellow", TextNotConnected)>>
       /\ lastWrite' = <<>>
       /\ bytesSent' = bytesSent]_vars

\* C13 (as amended): the auto-reconnect key pressed while isReconnecting is
\* true leaves auto-reconnect on: it cancels the pending backoff timer, resets
\* the counter and the reconnect bookkeeping, and arms a 500 ms timer that
\* starts a new attempt.
C13_KeyWhileReconnectingResets ==
  [][(step' = "keyR" /\ autoReconnect /\ isReconnecting) =>
       /\ autoReconnect' /\ ~isReconnecting' /\ reconnectAttempts' = 0
       /\ reconnectTimer' = "null" /\ reconnectStartTime' = "null"
       /\ kickTimers' = kickTimers + 1
       /\ emitted' = <<Logged("cyan", TextResetting)>>]_vars

\* C13 as stated: the key pressed while isReconnecting is true turns
\* auto-reconnect off, cancels the pending timer and schedules nothing.
C13_KeyWhileReconnectingTurnsOff ==
  [][(step' = "keyR" /\ isReconnecting) =>
       /\ ~autoReconnect' /\ ~isReconnecting'
       /\ reconnectTimer' # "pending"
       /\ kickTimers' = kickTimers]_vars

\* The key has just been pressed during a reconnect: auto-reconnect is still
\* on and a new attempt is scheduled.
C13_Witness ==
  /\ step = "keyR" /\ emitted = <<Logged("cyan", TextResetting)>>
  /\ autoReconnect /\ ~isReconnecting /\ reconnectTimer = "null" /\ kickTimers = 1

\* C14: while auto-reconnect is off the attempt counter is 0; the key pressed
\* then with no open port turns auto-reconnect on with the counter at 0 and
\* arms the timer that starts an attempt, and the attempt that timer starts
\* from the fresh counter has ordinal 1 and backoff delay 1000 ms.
C14_EnableStartsFreshAttempt ==
  [][/\ ~autoReconnect => reconnectAttempts = 0
     /\ (step' = "keyR" /\ ~autoReconnect /\ ~IsOpen(port)) =>
          /\ autoReconnect' /\ ~isReconnecting' /\ reconnectAttempts' = 0
          /\ kickTimers' = kickTimers + 1
     /\ (step' = "kickTimer" /\ autoReconnect /\ ~isReconnecting /\ ~isShuttingDown
         /\ reconnectAttempts = 0) =>
          /\ isReconnecting' /\ reconnectAttempts' = 1
          /\ currentReconnectDelay' = 1000 /\ reconnectTimer' = "pending"]_vars

\* Auto-reconnect has just been turned on again with no port open, after a
\* permanent open error had turned it off.
C14_Witness ==
  /\ step = "keyR" /\ emitted = <<Logged("green", TextAutoEnabled)>>
  /\ ~IsOpen(port) /\ autoReconnect /\ reconnectAttempts = 0 /\ kickTimers = 1

\* C15: no SerialPort object other than the one port names has listeners
\* attached (the listeners of a handle are removed before its successor is
\* created), and no close event of such an object is processed: a step in which
\* an object other than port closes reports nothing and arms no timer.
C15_OldHandleIsSilent ==
  [][/\ \A i \in 1..Len(orphans') : ~orphans'[i].ls
     /\ (step' = "disconnect" /\ port' = port) =>
          emitted' = <<>> /\ guardedTimers' = guardedTimers]_vars

\* C16: no step of the program (inbound data, send, clear, disconnect,
\* reconnect attempt, reconnect success, permanent failure, R key) decreases
\* bytesReceived, bytesSent or messagesReceived, and none changes startTime.
C16_CountersAreCumulative ==
  [][/\ bytesReceived' >= bytesReceived
     /\ bytesSent' >= bytesSent
     /\ messagesReceived' >= messagesReceived
     /\ startTime' = startTime]_vars

\* Bytes were received and sent, the port was lost, a reconnect ended with a
\* permanent failure, and the counters still hold what was counted before.
C16_Witness ==
  /\ permFailed /\ ~IsOpen(port)
  /\ bytesReceived > 0 /\ messagesReceived > 0 /\ bytesSent > 0

\* C17: filterEnabled is true exactly when filterText is non-empty, before and
\* after every step; a submit of the filter dialog makes the submitted text
\* the filter text, which turns filtering off when the text is empty and on
\* (again) when it is not.
C17_FilterEnabledIffText ==
  [][/\ filterEnabled <=> (filterText # <<>>)
     /\ filterEnabled' <=> (filterText' # <<>>)
     /\ step' = "filterSubmit" =>
          /\ filterText' = lastInput'
          /\ filterEnabled' = (lastInput' # <<>>)]_vars

\* A non-empty text has just been submitted and filtering is on with it.
C17_Witness ==
  /\ step = "filterSubmit" /\ lastInput = <<"T">>
  /\ filterEnabled /\ filterText = <<"T">>

\* C18: whatever pauseLogging and the filter are, a disconnect the close
\* handler sees, the scheduling of an attempt, a failed open and a successful
\* reconnect each put exactly one message on the log, and a permanent failure
\* one more for its classification.
C18_EveryTransitionReportedOnce ==
  [][/\ step' = "disconnect" => Len(emitted') = 1
     /\ (isReconnecting' /\ ~isReconnecting) => Len(emitted') = 1
     /\ step' = "openFailed" =>
          Len(emitted') = (IF IsPermanentError(lastError') THEN 2 ELSE 1)
     /\ step' = "openOk" => Len(emitted') = 1]_vars

\* C19: pressing the auto-reconnect key during a reconnect replaces the
\* attempt: in every state at most one backoff timer is pending and at most
\* one reconnect callback awaits an open, and no backoff callback closes a port
\* that is open.
C19_ManualReconnectReplaces ==
  [][/\ (IF reconnectTimer' = "pending" THEN 1 ELSE 0) + orphanTimers' <= 1
     /\ Cardinality({i \in 1..Len(orphans') :
                       orphans'[i].st = "opening" /\ orphans'[i].w = "cb"})
        + (IF port'.st = "opening" /\ port'.w = "cb" THEN 1 ELSE 0) <= 1
     /\ ~(step' = "backoffTimer" /\ IsOpen(port) /\ port'.st = "closing")]_vars

\* C20 (as amended): when the open a reconnect attempt awaits fails with an
\* error that is not permanent, or times out, and shutdown has not begun, the
\* step clears isReconnecting, keeps autoReconnect and the attempt counter and
\* arms the 1 s retry timer; when that timer fires with auto-reconnect on, the
\* port not open and no reconnect under way, the next attempt is scheduled and
\* isReconnecting is true again.  A failure of the initial open ends the
\* process and schedules nothing.
C20_FailedAttemptSchedulesRetry ==
  [][/\ (step' \in {"openFailed", "openTimeout"} /\ ~isShuttingDown
         /\ ~IsPermanentError(lastError')) =>
          /\ ~isReconnecting' /\ guardedTimers' = guardedTimers + 1
          /\ autoReconnect' = autoReconnect
          /\ reconnectAttempts' = reconnectAttempts
     /\ (step' = "guardedTimer" /\ autoReconnect /\ ~IsOpen(port) /\ ~isShuttingDown
         /\ ~isReconnecting) =>
          /\ isReconnecting' /\ reconnectTimer' = "pending"
          /\ reconnectAttempts' = reconnectAttempts + 1
     /\ step' = "initialOpenFails" =>
          /\ exited' /\ ~isReconnecting' /\ reconnectTimer' # "pending"
          /\ guardedTimers' = 0 /\ kickTimers' = 0]_vars

\* C20 as stated: every open that fails or times out while auto-reconnect is
\* on and shutdown has not begun, the initial open included, leaves a retry
\* scheduled or the session reconnecting.
C20_AnyFailedOpenSchedulesRetry ==
  [][(step' \in {"initialOpenFails", "openFailed", "openTimeout"}
      /\ autoReconnect /\ ~isShuttingDown) =>
       /\ ~exited'
       /\ isReconnecting' \/ guardedTimers' > guardedTimers]_vars

\* The retry armed by a failed first attempt has fired: the second attempt is
\* scheduled and the session is reconnecting.
C20_Witness ==
  /\ step = "guardedTimer" /\ isReconnecting /\ reconnectTimer = "pending"
  /\ reconnectAttempts = 2 /\ failedOpens = 1

\* C21 (as amended): a close event of the port, seen by the close handler
\* while auto-reconnect is on, no reconnect is under way and shutdown has not
\* begun, is reported and arms the 500 ms timer, and when such a timer fires
\* with auto-reconnect on and the port not open the attempt is scheduled
\* (isReconnecting true, backoff timer pending).  An error event is reported
\* and changes neither the port nor the reconnect state nor any timer.
C21_CloseStartsReconnect ==
  [][/\ (step' = "disconnect" /\ port' # port /\ port.ls /\ ~isShuttingDown
         /\ autoReconnect /\ ~isReconnecting) =>
          /\ guardedTimers' = guardedTimers + 1
          /\ emitted' = <<Logged("yellow", TextDisconnected)>>
     /\ (step' = "guardedTimer" /\ autoReconnect /\ ~IsOpen(port) /\ ~isShuttingDown
         /\ ~isReconnecting) =>
          isReconnecting' /\ reconnectTimer' = "pending"
     /\ step' = "portError" =>
          /\ UNCHANGED <<connVars, reconVars, timerVars>>
          /\ emitted' = IF isShuttingDown THEN <<>>
                        ELSE <<Logged("red", TextPortError(TransportError))>>]_vars

\* C21 as stated: a close event and an error event of the open port, while
\* auto-reconnect is on and no reconnect is under way, each leave a reconnect
\* under way or the timer that starts one armed.
C21_CloseOrErrorStartsReconnect ==
  [][(step' \in {"disconnect", "portError"} /\ IsOpen(port) /\ port.ls
      /\ orphans = <<>> /\ ~isShuttingDown /\ autoReconnect /\ ~isReconnecting) =>
       isReconnecting' \/ guardedTimers' = guardedTimers + 1]_vars

\* The port was lost while connected and the timer its close event armed has
\* scheduled the first reconnect attempt.
C21_Witness ==
  /\ step = "guardedTimer" /\ isReconnecting /\ reconnectTimer = "pending"
  /\ reconnectAttempts = 1 /\ failedOpens = 0
  /\ port.st = "closed" /\ port.ls /\ orphans = <<>>

\* C22: once the port has closed by itself while auto-reconnect was turned off
\* by the user, and for as long as it stays off, no step schedules a reconnect
\* attempt, none creates and opens a SerialPort, and a close event arms no
\* timer.
C22_NoReconnectWhileDisabled ==
  [][(~autoReconnect /\ ~autoReconnect' /\ ~permFailed /\ ~isShuttingDown
      /\ port.st = "closed" /\ port.ls) =>
       /\ ~(isReconnecting' /\ ~isReconnecting)
       /\ ~(step' \in {"backoffTimer", "closeCompletes"}
            /\ port' # port /\ port'.st = "opening")
       /\ step' = "disconnect" =>
            guardedTimers' = guardedTimers /\ kickTimers' = kickTimers]_vars

\* C23: whenever the port is open and isReconnecting is false,
\* reconnectAttempts is 0, reconnectStartTime is null and
\* currentReconnectDelay is 0.
C23_ConnectedMeansCleared ==
  (IsOpen(port) /\ ~isReconnecting) =>
    /\ reconnectAttempts = 0
    /\ reconnectStartTime = "null"
    /\ currentReconnectDelay = 0

\* C24: after an open failure was classified as permanent, and for as long as
\* auto-reconnect stays off, no step schedules a reconnect attempt and none
\* creates and opens a SerialPort.
C24_NothingStartsAfterPermanentFailure ==
  [][(permFailed /\ ~autoReconnect /\ ~autoReconnect' /\ ~isShuttingDown) =>
       /\ ~(isReconnecting' /\ ~isReconnecting)
       /\ ~(step' \in {"backoffTimer", "closeCompletes"}
            /\ port' # port /\ port'.st = "opening")]_vars

\* C25: with no user input, an open of a reconnect attempt that fails with a
\* transient error or times out leaves the counter as it is, and the attempt
\* scheduled after k such failures has ordinal k + 1, one more than the
\* counter, for every k, while its delay is 1000 * 2^k ms up to k = 4 and
\* 30000 ms from k = 5 on.
C25_OrdinalGrowsDelayCapped ==
  [][/\ (step' \in {"openFailed", "openTimeout"} /\ ~IsPermanentError(lastError')) =>
          /\ reconnectAttempts' = reconnectAttempts
          /\ failedOpens' = failedOpens + 1
     /\ (isReconnecting' /\ ~isReconnecting) =>
          /\ reconnectAttempts' = reconnectAttempts + 1
          /\ reconnectAttempts' = failedOpens + 1
          /\ currentReconnectDelay' =
               (IF failedOpens >= 5 THEN 30000 ELSE 1000 * Pow2(failedOpens))
          /\ currentReconnectDelay' <= 30000]_vars

\* Seven opens in a row have failed and attempt 8 is scheduled, 30 s ahead.
C25_Witness ==
  /\ step = "guardedTimer" /\ isReconnecting
  /\ failedOpens = 7 /\ reconnectAttempts = 8 /\ currentReconnectDelay = 30000

\* C26: when a backoff timer fires while auto-reconnect is off or shutdown has
\* begun, its callback leaves every SerialPort as it is, reports nothing and
\* sets isReconnecting to false; otherwise it reports the attempt and either
\* starts closing the open port or creates and opens a new one.
C26_TimerGuard ==
  [][step' = "backoffTimer" =>
       IF ~autoReconnect \/ isShuttingDown
       THEN UNCHANGED connVars /\ ~isReconnecting' /\ emitted' = <<>>
       ELSE /\ emitted' = <<Logged("cyan", TextAttemptingOpen)>>
            /\ isReconnecting' = isReconnecting
            /\ IF IsOpen(port) THEN port'.st = "closing" /\ port'.w = "cb"
               ELSE port'.st = "opening" /\ port'.w = "cb" /\ port'.ls]_vars

\* A backoff timer has fired after auto-reconnect was turned off by a
\* permanent failure: nothing was opened.
C26_Witness ==
  /\ step = "backoffTimer" /\ ~autoReconnect /\ ~isShuttingDown
  /\ ~isReconnecting /\ emitted = <<>> /\ ~IsLive(port)

\* C27: the step that begins shutdown or turns auto-reconnect off leaves no
\* timer pending that can start a reconnect: no backoff timer and no 500 ms or
\* 1000 ms follow-up timer.
C27_CancelClearsEveryTimer ==
  [][(\/ isShuttingDown' /\ ~isShuttingDown /\ ~exited'
      \/ autoReconnect /\ ~autoReconnect') =>
       /\ reconnectTimer' # "pending" /\ orphanTimers' = 0
       /\ guardedTimers' = 0 /\ kickTimers' = 0]_vars

\* C28 (as amended): scheduling an attempt sets reconnectStartTime and
\* currentReconnectDelay; they are cleared by the success of the awaited open,
\* by the branches of the R key that call cancelReconnect and by cleanup(); a
\* failed or timed-out open, transient or permanent, sets isReconnecting to
\* false and leaves both as they were.
C28_BookkeepingClearedOnSuccessAndCancel ==
  [][/\ (isReconnecting' /\ ~isReconnecting) =>
          /\ reconnectStartTime' = "set"
          /\ currentReconnectDelay' = BackoffDelay(reconnectAttempts')
     /\ (\/ step' = "openOk"
         \/ step' = "keyR" /\ (~autoReconnect \/ isReconnecting \/ IsOpen(port))
         \/ step' = "signal" /\ ~isShuttingDown) =>
          /\ ~isReconnecting'
          /\ reconnectStartTime' = "null" /\ currentReconnectDelay' = 0
     /\ (step' \in {"openFailed", "openTimeout"} /\ ~isShuttingDown) =>
          /\ ~isReconnecting'
          /\ reconnectStartTime' = reconnectStartTime
          /\ currentReconnectDelay' = currentReconnectDelay]_vars

\* C28 as stated: whenever isReconnecting is false, reconnectStartTime is null
\* and currentReconnectDelay is 0.
C28_NoBookkeepingUnlessReconnecting ==
  ~isReconnecting => reconnectStartTime = "null" /\ currentReconnectDelay = 0

\* The open of attempt 1 has just failed with a permanent error: the session
\* is not reconnecting and start time and delay are still those of attempt 1.
C28_Witness ==
  /\ step = "openFailed" /\ permFailed /\ ~autoReconnect /\ ~isReconnecting
  /\ reconnectStartTime = "set" /\ currentReconnectDelay = 1000

\* C29 (as amended): a chunk is split at the delimiter \n: the lines it
\* completes, joined with what is held back, are what was held back before
\* followed by the chunk, and what is held back holds no delimiter.  Each
\* completed line whose trimmed text is not empty increments messagesReceived
\* once, whatever pause and filter are, and is handed to the log as one green
\* message of its trimmed text, which the log shows when pause and filter are
\* off; an empty or whitespace-only line increments nothing and makes no
\* message.
C29_NonBlankLinesCounted ==
  [][(step' = "portData" /\ ~isShuttingDown) =>
       LET lines == lastLines'
           nonBlank == {i \in 1..Len(lines) : Trim(lines[i]) # <<>>}
           shown == SelectSeq(emitted', LAMBDA e : e.kind = "message")
           RECURSIVE Joined(_)
           Joined(ls) == IF ls = <<>> THEN <<>>
                         ELSE Head(ls) \o <<"\n">> \o Joined(Tail(ls))
       IN /\ Joined(lines) \o port'.buf = port.buf \o lastChunk'
          /\ \A i \in 1..Len(port'.buf) : port'.buf[i] # "\n"
          /\ \A i \in 1..Len(lines) : \A j \in 1..Len(lines[i]) : lines[i][j] # "\n"
          /\ messagesReceived' = messagesReceived + Cardinality(nonBlank)
          /\ Len(shown) <= Cardinality(nonBlank)
          /\ \A i \in 1..Len(shown) :
               /\ shown[i].color = "green"
               /\ \E k \in nonBlank : shown[i] = Logged("green", TextInbound(Trim(lines[k])))
          /\ (~pauseLogging /\ ~filterEnabled) => Len(shown) = Cardinality(nonBlank)]_vars

\* C29 as stated: every line a chunk completes, blank or not, makes one message
\* and increments messagesReceived once, whatever pause and filter are.
C29_EveryLineCounted ==
  [][(step' = "portData" /\ ~isShuttingDown) =>
       /\ messagesReceived' = messagesReceived + Len(lastLines')
       /\ Len(SelectSeq(emitted', LAMBDA e : e.kind = "message")) = Len(lastLines')]_vars

\* A chunk has completed the line "T" while logging was paused: it was counted
\* and not shown.
C29_Witness ==
  /\ step = "portData" /\ pauseLogging /\ lastLines = << <<"T">> >>
  /\ messagesReceived >= 1 /\ emitted = <<>>

\* C30: whatever pauseLogging and the filter are, the log shows the red
\* message of a port error and of a failed reconnect attempt and the yellow
\* message of a disconnect, of a permanent error and of a send with no port
\* open, and a chunk adds to messagesReceived and bytesReceived what its lines
\* count for, paused or not.
C30_WarningsAndCountersIgnorePause ==
  [][~isShuttingDown =>
       /\ step' = "portError" =>
            emitted' = <<Logged("red", TextPortError(TransportError))>>
       /\ (step' = "disconnect" /\ port.ls) =>
            emitted' = <<Logged("yellow", TextDisconnected)>>
       /\ step' = "openFailed" =>
            /\ emitted'[1] = Logged("red", TextReconnectFailed(reconnectAttempts, lastError'))
            /\ IF IsPermanentError(lastError')
               THEN /\ Len(emitted') = 2
                    /\ emitted'[2] = Logged("yellow", TextPermanent)
               ELSE Len(emitted') = 1
       /\ (step' = "keyI" /\ ~IsOpen(port)) =>
            emitted' = <<Logged("yellow", TextNotConnected)>>
       /\ step' = "portData" =>
            /\ messagesReceived' = messagesReceived
                 + Cardinality({i \in 1..Len(lastLines') : Trim(lastLines'[i]) # <<>>})
            /\ bytesReceived' = bytesReceived + LineBytes(lastLines')]_vars

\* While logging is paused and a filter is on, data has been counted and the
\* failure of a reconnect attempt has just been reported.
C30_Witness ==
  /\ step = "openFailed" /\ pauseLogging /\ filterEnabled
  /\ bytesReceived > 0 /\ messagesReceived > 0
  /\ Len(emitted) = 2 /\ emitted[2].color = "yellow"

\* C31: a write that fails during a send (port.write throws) is reported as a
\* red message, adds nothing to bytesSent, and changes neither the port, the
\* objects left behind, nor isReconnecting, the attempt counter, the
\* auto-reconnect flag and the timers.
C31_WriteFailureReported ==
  [][step' = "inputSubmitThrows" =>
       /\ emitted' = <<Logged("red", TextSendFailed(TransportError))>>
       /\ lastWrite' = <<>>
       /\ bytesSent' = bytesSent
       /\ port' = port /\ orphans' = orphans
       /\ isReconnecting' = isReconnecting
       /\ reconnectAttempts' = reconnectAttempts
       /\ autoReconnect' = autoReconnect
       /\ reconnectTimer' = reconnectTimer
       /\ guardedTimers' = guardedTimers /\ kickTimers' = kickTimers]_vars

\* A write has just failed while logging was paused, after an earlier send of
\* two bytes: the failure is shown and the two bytes are still the total.
C31_Witness ==
  /\ step = "inputSubmitThrows" /\ pauseLogging /\ IsOpen(port)
  /\ lastInput = <<"p">> /\ bytesSent = 2
  /\ emitted = <<Logged("red", TextSendFailed(TransportError))>>

\* C32: the line-ending mode is always LF, CR or CRLF; the L key maps LF to
\* CR, CR to CRLF and CRLF to LF, so that two more presses lead back to the
\* mode it left, and it changes nothing of the port or its parser; a send ends
\* with the bytes of the mode; inbound framing splits on \n whatever the mode:
\* the lines delivered for a chunk, each followed by \n, and then the part held
\* back, spell what the parser held followed by the chunk, and neither a line
\* nor the part held back contains \n.
C32_LineEndingCycleAndFraming ==
  /\ lineEnding \in {"LF", "CR", "CRLF"}
  /\ [][/\ lineEnding' \in {"LF", "CR", "CRLF"}
        /\ step' = "keyL" =>
             LET next(m) == CASE m = "LF" -> "CR" [] m = "CR" -> "CRLF"
                              [] m = "CRLF" -> "LF"
             IN /\ lineEnding' = next(lineEnding)
                /\ next(next(lineEnding')) = lineEnding
                /\ port' = port /\ orphans' = orphans
        /\ step' # "keyL" => lineEnding' = lineEnding
        /\ (step' = "inputSubmit" /\ lastWrite' # <<>>) =>
             lastWrite' = lastInput' \o (CASE lineEnding = "LF" -> <<"\n">>
                                           [] lineEnding = "CR" -> <<"\r">>
                                           [] lineEnding = "CRLF" -> <<"\r", "\n">>)
        /\ step' = "portData" =>
             LET RECURSIVE joined(_)
                 joined(ls) == IF ls = <<>> THEN <<>>
                               ELSE Head(ls) \o <<"\n">> \o joined(Tail(ls))
             IN /\ joined(lastLines') \o port'.buf = port.buf \o lastChunk'
                /\ \A i \in 1..Len(lastLines') :
                     \A j \in 1..Len(lastLines'[i]) : lastLines'[i][j] # "\n"
                /\ \A j \in 1..Len(port'.buf) : port'.buf[j] # "\n"]_vars

\* In CR mode a chunk with a carriage return and a line feed has arrived: the
\* one line delivered ends at the line feed and still holds the carriage return.
C32_Witness ==
  /\ step = "portData" /\ lineEnding = "CR"
  /\ lastChunk = <<"T", "\r", "\n">>
  /\ lastLines = << <<"T", "\r">> >>
  /\ bytesSent = 2

\* C33 (as amended): while the hex view is on and logging is not paused, every
\* inbound chunk reaches the hex pane as one entry, whether or not it ends a
\* line and whatever the filter is: the entry spells all the bytes of a chunk
\* of at most N bytes, N the larger of ten and a tenth of the screen width
\* (ten on a screen 80 columns wide, twelve on one of 120), and the first N - 1
\* bytes followed by "..." for a longer chunk; while paused, or with the hex
\* view off, the pane receives nothing.
C33_HexPaneReceivesChunks ==
  [][step' = "portData" =>
       LET hex == SelectSeq(emitted', LAMBDA e : e.kind = "hex")
           all == HexString(lastChunk')
           most == IF screenWidth \div 10 > 10 THEN screenWidth \div 10 ELSE 10
       IN IF showHex /\ ~pauseLogging /\ ~isShuttingDown
          THEN /\ Len(hex) = 1
               /\ Len(lastChunk') <= most => hex[1].text = all
               /\ Len(lastChunk') > most =>
                    hex[1].text = SubSeq(all, 1, 3 * (most - 1)) \o <<".", ".", ".">>
          ELSE hex = <<>>]_vars

\* C33 as stated: the entry spells every byte of the chunk, whatever its length.
C33_HexPaneVerbatim ==
  [][(step' = "portData" /\ showHex /\ ~pauseLogging /\ ~isShuttingDown) =>
       \E i \in 1..Len(emitted') :
         emitted'[i].kind = "hex" /\ emitted'[i].text = HexString(lastChunk')]_vars

\* A chunk of eleven bytes has arrived with the hex view on, logging active and
\* a filter set: the pane got a shortened entry.
C33_Witness ==
  /\ step = "portData" /\ showHex /\ ~pauseLogging /\ filterEnabled
  /\ lastChunk = LongChunk /\ screenWidth = 80
  /\ emitted # <<>>
  /\ emitted[Len(emitted)] = Event("hex", "hex",
                       <<"5", "4", " ", "0", "A", " ", "0", "A", " ", "0", "A", " ",
                         "0", "A", " ", "0", "A", " ", "0", "A", " ", "0", "A", " ",
                         "0", "A", " ", ".", ".", ".">>)

\* C34: the keys for pause, hex view, statistics panel, echo, line ending and
\* filter (the F key, and the filter dialog's submit and cancel) leave the
\* port object and the objects left behind, isReconnecting, the attempt
\* counter, the auto-reconnect flag, every pending timer and the byte and
\* message counters unchanged.
C34_TogglesLeaveConnection ==
  [][step' \in {"keyP", "keyH", "keyS", "keyE", "keyL", "keyF", "filterSubmit",
                "filterCancel"} =>
       /\ port' = port /\ orphans' = orphans /\ parser' = parser
       /\ isReconnecting' = isReconnecting
       /\ reconnectAttempts' = reconnectAttempts
       /\ autoReconnect' = autoReconnect
       /\ reconnectTimer' = reconnectTimer /\ orphanTimers' = orphanTimers
       /\ guardedTimers' = guardedTimers /\ kickTimers' = kickTimers
       /\ bytesReceived' = bytesReceived /\ bytesSent' = bytesSent
       /\ messagesReceived' = messagesReceived]_vars

\* Logging has just been paused while a backoff timer is pending for the first
\* attempt, after one line was received: timer, counter and totals are intact.
C34_Witness ==
  /\ step = "keyP" /\ pauseLogging
  /\ isReconnecting /\ reconnectTimer = "pending" /\ reconnectAttempts = 1
  /\ ~IsOpen(port) /\ bytesReceived = 1 /\ messagesReceived = 1

\* C35: whenever the status line shows a countdown (isReconnecting with
\* reconnectStartTime set), the number shown is the smallest whole number of
\* seconds that is at least (currentReconnectDelay - elapsed) / 1000 and at
\* least 0: it is never negative, never more than the delay in seconds, and 0
\* once elapsed has reached the delay.
C35_CountdownBounds ==
  StatusShown = "Reconnecting" =>
    /\ CountdownShown >= 0
    /\ CountdownShown * 1000 <= currentReconnectDelay
    /\ elapsed >= currentReconnectDelay => CountdownShown = 0
    /\ CountdownShown * 1000 >= currentReconnectDelay - elapsed
    /\ CountdownShown > 0 =>
         (CountdownShown - 1) * 1000 < currentReconnectDelay - elapsed

\* Half a second into the two-second delay of the second attempt the status
\* line shows 2.
C35_Witness ==
  /\ StatusShown = "Reconnecting" /\ reconnectAttempts = 2
  /\ currentReconnectDelay = 2000 /\ elapsed = 500
  /\ CountdownShown = 2

\* C36: in every reachable state at most one backoff timer of attemptReconnect
\* is pending, at most one open started by a reconnect callback is in flight,
\* and isReconnecting is true whenever such a timer is pending or such an open
\* is in flight.
C36_OneTimerOneAttempt ==
  LET timers == (IF reconnectTimer = "pending" THEN 1 ELSE 0) + orphanTimers
      objects == <<port>> \o orphans
      opening == {i \in 1..Len(objects) :
                    objects[i].st = "opening" /\ objects[i].w = "cb"}
  IN /\ timers <= 1
     /\ Cardinality(opening) <= 1
     /\ (timers > 0 \/ opening # {}) => isReconnecting

\* C37: with no user command and no shutdown, after a close of the port seen
\* with auto-reconnect on, the session reaches an open attempt that fails or
\* times out, or becomes Connected with isReconnecting false and the attempt
\* counter 0 (so it becomes Connected if the attempt made succeeds); an open
\* attempt that succeeds leaves it in that state at once, and a session in that
\* state stays in it until the port closes.
C37_RecoversAfterClose ==
  /\ [][step' = "openOk" =>
          /\ StatusShown' = "Connected" /\ ~isReconnecting'
          /\ reconnectAttempts' = 0]_vars
  /\ [][(StatusShown = "Connected" /\ reconnectAttempts = 0 /\ step' # "disconnect") =>
          (StatusShown' = "Connected" /\ reconnectAttempts' = 0)]_vars
  /\ (step = "disconnect" /\ emitted = <<Logged("yellow", TextDisconnected)>>
      /\ autoReconnect /\ reconnectAttempts < MaxBackoffAttempts)
       ~> \/ step \in {"openFailed", "openTimeout"}
          \/ StatusShown = "Connected" /\ ~isReconnecting /\ reconnectAttempts = 0

\* The second attempt after a close has just succeeded: the session is
\* Connected again with the counter back at 0.
C37_Witness ==
  /\ step = "openOk" /\ StatusShown = "Connected" /\ ~isReconnecting
  /\ reconnectAttempts = 0 /\ autoReconnect
  /\ emitted = <<Logged("green", TextReconnected(2))>>

\* C38: with no user command and no shutdown, in a session in which every
\* reconnect attempt really fails (no open of the port ever succeeds, in time
\* or late) and fails with an error that is not permanent (a timeout among
\* them), every failed attempt made while auto-reconnect is on is eventually
\* followed by another open attempt: a backoff timer callback that creates a
\* SerialPort and awaits its open.
C38_FailedAttemptIsFollowed ==
  [](/\ step \notin {"openOk", "lateOpenOk"}
     /\ step \in {"openFailed", "openTimeout"} => ~IsPermanentError(lastError)) =>
    ((/\ step \in {"openFailed", "openTimeout"} /\ autoReconnect
      /\ reconnectAttempts < MaxBackoffAttempts)
       ~> (step = "backoffTimer" /\ port.st = "opening" /\ port.w = "cb"))

\* The third attempt has just started its open after the first two attempts
\* failed with errors that are not permanent and no open succeeded in between.
C38_Witness ==
  /\ step = "backoffTimer" /\ port.st = "opening" /\ port.w = "cb"
  /\ reconnectAttempts = 3 /\ failedOpens = 2 /\ autoReconnect

\* C39: while the screen lives and shutdown has not begun, every key handler is
\* bound to the screen exactly once when no dialog is open and not at all when
\* the send, filter or help dialog is open, whatever dialogs were opened and
\* closed before; one press of the pause key flips pauseLogging once.
C39_HandlersBoundOnce ==
  /\ []((uiReady /\ ~isShuttingDown) =>
          screenHandlers = IF dialog = "none" THEN 1 ELSE 0)
  /\ [][step' = "keyP" => pauseLogging' = ~pauseLogging]_vars

\* The pause key has just been pressed after a send, a filter and at least one
\* more dialog were closed: logging is paused and the handlers are bound once.
C39_Witness ==
  /\ step = "keyP" /\ pauseLogging /\ screenHandlers = 1 /\ dialog = "none"
  /\ bytesSent = 2 /\ filterEnabled
====
